---- MODULE Spec2Model ----
(***************************************************************************)
(* Murajaah: spaced-repetition scheduler.                                  *)
(*                                                                         *)
(* Representation of the program's numbers:                                *)
(*  - timestamps (Date) are whole ticks of the device clock, a day is      *)
(*    TicksPerDay ticks; null is Null;                                     *)
(*  - stability, difficulty and the FSRS weights are fixed-point numbers   *)
(*    in thousandths (0.4 is 400);                                         *)
(*  - a retrievability R in (0,1] is carried by its logarithm, in          *)
(*    millionths (ln R = -105361 is R = 0.9), so that Math.pow(R, -w2)     *)
(*    is exp(-w2 * ln R).                                                  *)
(* Fields the scheduling never reads (easeFactor, recallScore, createdAt,  *)
(* the text of the ayah) are left out of the records.                      *)
(***************************************************************************)
EXTENDS Integers, Sequences, FiniteSets, TLC

VARIABLES
  \* the scheduling function on its own; a history variable: the reviews of
  \* the card
  fsCard, fsRating, fsNow, fsOut, fsPc, fsTrail,
  \* the intervals calculateOptimalIntervals returned last
  fsIntervals,
  \* device clock, uuid source, persistence failures injected so far
  clock, nextId, failures,
  \* database tables (rows in insertion order) and the reviewLimit setting
  ayah_groups, ayah_progress, session_statistics, reviewLimit,
  \* SessionProvider state
  isActive, ayahs, ayahIndex, currentAyah, sessionStats,
  uniqueGroups, uniqueGroupIndex, totalReviewed, newLearned,
  startTime, elapsedTime, ayahStartTime, loading, error, timer,
  \* live setInterval tickers, rateAyah invocations in flight
  intervals, calls,
  \* history variables: sessions started, the last rating event, the
  \* current session's record
  started, evt, hist,
  \* the surah's ayahCount, the groups createGroupsForSurah returned last, and
  \* a history variable: the calls of createGroupsForSurah
  surahAyahCount, groupsReturned, grp,
  \* the content provider: what the API holds for the surah, the tables
  \* quran_ayahs and quran_surahs (the surah's row), the scripts with a live
  \* AsyncStorage entry, settings.quranScript
  apiAyahs, quran_ayahs, quran_surahs, ayahsCache, quranScript,
  \* history variables: the last call of createGroupsForSurah for a
  \* structural method, the last addToLearningQueue
  structCall, queued

fsrsVars == <<fsCard, fsRating, fsNow, fsOut, fsPc, fsTrail, fsIntervals>>
envVars == <<clock, nextId, failures>>
dbVars == <<ayah_groups, ayah_progress, session_statistics, reviewLimit>>
sessVars == <<isActive, ayahs, ayahIndex, currentAyah, sessionStats,
              uniqueGroups, uniqueGroupIndex, totalReviewed, newLearned,
              startTime, elapsedTime, ayahStartTime, loading, error, timer>>
runVars == <<intervals, calls>>
ghostVars == <<started, evt, hist>>
contentVars == <<apiAyahs, quran_ayahs, quran_surahs, ayahsCache, quranScript>>
groupVars == <<surahAyahCount, groupsReturned, grp, contentVars, structCall, queued>>
vars == <<fsrsVars, envVars, dbVars, sessVars, runVars, ghostVars, groupVars>>

(***************************************************************************)
(* Bounds of the model.                                                    *)
(***************************************************************************)
TicksPerDay == 2
MaxClock == 1
\* the session specification: ayahs of the surah, size of its fixed groups,
\* sessions started, write failures injected, timer firings
SessionAyahCount == 3
SessionGroupSize == 2
MaxSessions == 1
MaxTimedSessions == 2
MaxFailures == 1
MaxElapsed == 1
\* the lifecycle specification: sessions started
MaxLifeSessions == 2
\* sessions of the read-after-write specification
MaxReadSessions == 2
\* the double-tap specification: sessions, rateAyah invocations in flight and
\* in all
MaxTapSessions == 1
MaxTaps == 2
MaxTapCount == 3
\* the retention specification: ratings of one kind given so far
MaxTally == 2
\* the due-set specification: the last tick of the device clock
MaxDueClock == 2
\* the review specification: reviews of the card, days they spread over
MaxReviews == 3
MaxReviewDays == 2
\* the same with the intervals asked for: reviews of the card, days that pass
MaxIntervalReviews == 2
MaxIntervalDays == 1
\* the grouping specification: ayahs of the surah, the largest size requested,
\* calls of createGroupsForSurah
MaxAyahCount == 12
MaxGroupingSize == 5
MaxGroupCalls == 3
\* the structural specification: ayahs of the surah, distinct ruku (page)
\* numbers within it, calls of createGroupsForSurah
MaxStructAyahs == 6
MaxBoundaries == 2
MaxStructCalls == 2
\* the commit specification: ayahs of the surah, the largest size requested,
\* calls of createGroupsForSurah, groups selected at once, commits
MaxCommitAyahs == 4
MaxCommitSize == 3
MaxCommitCalls == 3
MaxSelected == 2
MaxCommits == 2
\* settings.reviewLimit as createDefaultSettings writes it
DefaultReviewLimit == 50

Null == 0 - 1

Day == TicksPerDay

Ratings == 1 .. 4

States == {"new", "learning", "review", "relearning"}

(***************************************************************************)
(* Fixed-point arithmetic.                                                 *)
(***************************************************************************)
Milli == 10 * 100
Micro == Milli * Milli
ExpScale == 10 * Milli

Min(a, b) == IF a <= b THEN a ELSE b
Max(a, b) == IF a >= b THEN a ELSE b

\* Math.round of the non-negative quotient num / den
RoundDiv(num, den) == (2 * num + den) \div (2 * den)

\* a * b / ExpScale without leaving 32 bits for a < 2^31, b < 2^31 / ExpScale
MulFix(a, b) == (a \div ExpScale) * b + ((a % ExpScale) * b) \div ExpScale

\* e^n in ExpScale-ths, n = 0 .. 10
ExpIntTable ==
  << 10000, 27183, 73891, 200855, 545982, 1484132, 4034288,
     10966332, 29809580, 81030839, 220264658 >>

RECURSIVE ExpTaylor(_, _, _)
\* sum of the Taylor terms y^k / k! for k >= n, given term = y^(n-1)/(n-1)!
ExpTaylor(y, n, term) ==
  IF term = 0 \/ n > 12 THEN 0
  ELSE LET t == (term * y) \div (n * ExpScale)
       IN  t + ExpTaylor(y, n + 1, t)

\* Math.exp(x) for x >= 0 in ExpScale-ths, result in ExpScale-ths
Exp(x) ==
  LET n == x \div ExpScale
      y == x % ExpScale
      frac == ExpScale + ExpTaylor(y, 1, ExpScale)
  IN  MulFix(ExpIntTable[n + 1], frac)

(***************************************************************************)
(* FSRS engine (services/fsrs).                                            *)
(***************************************************************************)
\* ln(0.9) = -0.105361, in millionths, sign dropped
LnPointNine == 105361

\* a seeded fault: the initial stability w[0] is 0
ParametersWithoutStability ==
  [ w |-> << 0, 600, 2400, 940, 860, 1010, 1300, 700, 1000, 1000, 900, 200 >>,
    requestRetention |-> 900 ]

DEFAULT_PARAMETERS ==
  [ w |-> << 400, 600, 2400, 940, 860, 1010, 1300, 700, 1000, 1000, 900, 200 >>,
    requestRetention |-> 900 ]

\* Math.log(requestRetention) / Math.log(0.9), in thousandths
LogRatio(requestRetention) ==
  CASE requestRetention = 900 -> 1000
    [] requestRetention = 950 -> 487
    [] requestRetention = 800 -> 2118
    [] requestRetention = 700 -> 3385

initializeCard ==
  [ state |-> "new", stability |-> 0, difficulty |-> 0, lapses |-> 0,
    lastReview |-> Null, dueDate |-> Null, interval |-> 0 ]

\* the values of a JavaScript number that are no number of the model: NaN as
\* a stability, an interval or a time (an Invalid Date), and the logarithm of
\* a retention of 0
NaN == 0 - 2

MinusInfinity == 1

\* ln of the retention, in millionths (0 is R = 1); elapsed in ticks.  With a
\* stability of 0 the quotient is -Infinity and the retention Math.exp of it, 0
memoryRetention(stability, elapsedTicks) ==
  IF elapsedTicks <= 0 THEN 0
  ELSE IF stability = 0 THEN MinusInfinity
  ELSE 0 - ((LnPointNine * elapsedTicks * Milli) \div (Day * stability))

\* Math.pow(R, -w2) in ExpScale-ths, R given by its logarithm
PowNeg(lnR, w2) == Exp((((0 - lnR) \div 100) * w2) \div Milli)

\* stability * factor * Math.pow(R, -w2); Math.pow(0, -w2) is Infinity and
\* 0 * Infinity is NaN
GrowStability(stability, factor, lnR, w2) ==
  IF lnR = MinusInfinity THEN NaN
  ELSE MulFix(PowNeg(lnR, w2), (stability * factor) \div Milli)

\* a seeded fault: no minimum of 1 day
nextIntervalUnfloored(stability, requestRetention) ==
  IF stability <= 0 THEN 0
  ELSE RoundDiv(stability * LogRatio(requestRetention), Micro)

\* NaN <= 0 is false, Math.round(NaN) and Math.max(1, NaN) are NaN
nextInterval(stability, requestRetention) ==
  IF stability = NaN THEN NaN
  ELSE IF stability <= 0 THEN 0
  ELSE Max(1, RoundDiv(stability * LogRatio(requestRetention), Micro))

\* new Date(now.getTime() + interval * 24 * 60 * 60 * 1000)
DueIn(now, interval) == IF interval = NaN THEN NaN ELSE now + interval * Day

\* a seeded fault: the difficulty is not clamped
Unclamped(d) == d

Clamp01(d) == Min(Max(0, d), Milli)

scheduleReview(card, rating, now, params) ==
  LET w == params.w
      rr == params.requestRetention
      elapsed == IF card.lastReview # Null THEN now - card.lastReview ELSE 0
      result == IF card.state = "new"
                THEN [card EXCEPT !.difficulty = w[2], !.stability = w[1]]
                ELSE card
      lnR == memoryRetention(card.stability, elapsed)
      rated ==
        CASE rating = 1 ->
               [result EXCEPT
                  !.state = IF card.state \in {"new", "learning"}
                            THEN "learning" ELSE "relearning",
                  !.lapses = IF card.state \in {"new", "learning"}
                             THEN @ ELSE @ + 1,
                  !.stability = IF @ > 0 THEN (@ * w[4]) \div Milli ELSE @,
                  !.difficulty = Clamp01(@ + w[8]),
                  !.interval = 0,
                  !.dueDate = now]
          [] rating = 2 ->
               LET hard ==
                     IF card.state \in {"new", "learning", "relearning"}
                     THEN [result EXCEPT !.interval = 1, !.dueDate = now + Day]
                     ELSE LET hardStability == GrowStability(card.stability, w[5], lnR, w[3])
                              iv == nextInterval(hardStability, rr)
                          IN  [result EXCEPT
                                 !.stability = hardStability,
                                 !.difficulty = Clamp01(@ + w[9]),
                                 !.interval = iv,
                                 !.dueDate = DueIn(now, iv)]
               IN  [hard EXCEPT
                      !.state = IF card.state = "relearning" THEN "review" ELSE card.state]
          [] rating = 3 ->
               LET good ==
                     IF card.state \in {"new", "learning"}
                     THEN [result EXCEPT !.state = "review", !.interval = 1,
                                         !.dueDate = now + Day]
                     ELSE LET goodStability == GrowStability(card.stability, w[6], lnR, w[3])
                              iv == nextInterval(goodStability, rr)
                          IN  [result EXCEPT
                                 !.state = IF card.state = "relearning" THEN "review" ELSE @,
                                 !.stability = goodStability,
                                 !.interval = iv,
                                 !.dueDate = DueIn(now, iv)]
               IN  [good EXCEPT !.difficulty = Clamp01(@ + w[10])]
          [] rating = 4 ->
               LET easy ==
                     IF card.state \in {"new", "learning", "relearning"}
                     THEN [result EXCEPT !.state = "review", !.interval = 4,
                                         !.dueDate = now + 4 * Day]
                     ELSE LET easyStability == GrowStability(card.stability, w[7], lnR, w[3])
                              iv == nextInterval(easyStability, rr)
                          IN  [result EXCEPT
                                 !.stability = easyStability,
                                 !.interval = iv,
                                 !.dueDate = DueIn(now, iv)]
               IN  [easy EXCEPT !.difficulty = Clamp01(@ + w[11])]
  IN  [rated EXCEPT !.lastReview = now]

\* a seeded fault: result is the card itself, not a copy of it
ScheduledInPlace(card, rating, now, params) ==
  [ card |-> scheduleReview(card, rating, now, params),
    result |-> scheduleReview(card, rating, now, params) ]

\* a call of scheduleReview: the card object after the call and the object
\* returned, const result = { ...card }
Scheduled(card, rating, now, params) ==
  [ card |-> card, result |-> scheduleReview(card, rating, now, params) ]

\* a seeded fault: the state of the card is not looked at
isDueByDate(card, now) ==
  IF card.dueDate = Null THEN FALSE ELSE card.dueDate <= now

\* isDue(card, now)
isDue(card, now) ==
  IF card.state = "new" THEN TRUE
  ELSE IF card.dueDate = Null THEN FALSE
  ELSE card.dueDate <= now

(***************************************************************************)
(* Tables.  One surah; a row of ayah_progress is                           *)
(*   [id, ayahNumber, groupId, testWithGroup, groupPosition, state,        *)
(*    stability, difficulty, lapses, interval, lastReviewed, nextReview,   *)
(*    history]                                                             *)
(* and a row of ayah_groups is                                             *)
(*   [id, startAyah, endAyah, groupType, state, ayahIds, testAsGroup].     *)
(***************************************************************************)
Range(seq) == { seq[i] : i \in 1 .. Len(seq) }

\* the orders SQL may return for ORDER BY key: every permutation of rows
\* that is ascending in key (the order of equal keys is unspecified)
RECURSIVE OrderBy(_, _)
OrderBy(rows, key) ==
  IF rows = {} THEN { << >> }
  ELSE UNION { { << r >> \o rest : rest \in OrderBy(rows \ {r}, key) } :
               r \in { x \in rows : \A y \in rows : key[x] <= key[y] } }

\* Math.max(1, groupSize || 5)
FixedSize(groupSize) == Max(1, IF groupSize = 0 THEN 5 ELSE groupSize)

\* a seeded fault: the end of a run is not cut at ayahCount
RECURSIVE FixedRunsUncut(_, _, _)
FixedRunsUncut(start, size, ayahCount) ==
  IF start > ayahCount THEN << >>
  ELSE << [startAyah |-> start, endAyah |-> start + size - 1] >>
       \o FixedRunsUncut(start + size, size, ayahCount)

\* the [start, end] runs of createFixedGroups' loop
RECURSIVE FixedRuns(_, _, _)
FixedRuns(start, size, ayahCount) ==
  IF start > ayahCount THEN << >>
  ELSE << [startAyah |-> start, endAyah |-> Min(start + size - 1, ayahCount)] >>
       \o FixedRuns(start + size, size, ayahCount)

\* the groups createFixedGroups returns, ids drawn from firstId on
createFixedGroups(ayahCount, groupSize, firstId) ==
  LET runs == FixedRuns(1, FixedSize(groupSize), ayahCount)
  IN  [ i \in 1 .. Len(runs) |->
          [ id |-> firstId + i - 1,
            startAyah |-> runs[i].startAyah,
            endAyah |-> runs[i].endAyah,
            groupType |-> "fixed",
            state |-> "new",
            ayahIds |-> << >>,
            testAsGroup |-> TRUE ] ]

HasProgress(table, ayahNumber) ==
  \E i \in 1 .. Len(table) : table[i].ayahNumber = ayahNumber

\* the row INSERTed for one ayah (createAyahProgress, addToLearningQueue)
NewProgressRow(id, ayahNumber, groupId, testWithGroup, groupPosition) ==
  LET card == initializeCard
  IN  [ id |-> id, ayahNumber |-> ayahNumber, groupId |-> groupId,
        testWithGroup |-> testWithGroup, groupPosition |-> groupPosition,
        state |-> card.state, stability |-> card.stability,
        difficulty |-> card.difficulty, lapses |-> card.lapses,
        interval |-> card.interval, lastReviewed |-> Null,
        nextReview |-> Null, history |-> << >> ]

RowIndex(table, id) ==
  IF \E i \in 1 .. Len(table) : table[i].id = id
  THEN CHOOSE i \in 1 .. Len(table) : table[i].id = id
  ELSE 0

\* updateAyahProgress: the row as UPDATEd for a rating at time now
UpdatedProgress(row, rating, elapsedMs, now) ==
  LET card == [ state |-> row.state, stability |-> row.stability,
                difficulty |-> row.difficulty, lapses |-> row.lapses,
                lastReview |-> row.lastReviewed, dueDate |-> row.nextReview,
                interval |-> row.interval ]
      scheduled == scheduleReview(card, rating, now, DEFAULT_PARAMETERS)
      reviewEntry == [ date |-> now, rating |-> rating,
                       elapsedTime |-> elapsedMs,
                       previousInterval |-> row.interval,
                       scheduledInterval |-> scheduled.interval ]
  IN  [ row EXCEPT
          !.lastReviewed = now,
          !.nextReview = scheduled.dueDate,
          !.stability = scheduled.stability,
          !.difficulty = scheduled.difficulty,
          !.lapses = scheduled.lapses,
          !.state = scheduled.state,
          !.interval = scheduled.interval,
          !.history = Append(@, reviewEntry) ]

\* a seeded fault: the UPDATE leaves nextReview as it was
updateAyahProgressKeepingDue(table, id, rating, elapsedMs, now) ==
  LET i == RowIndex(table, id)
  IN  [ table EXCEPT ![i] = [ UpdatedProgress(table[i], rating, elapsedMs, now)
                                EXCEPT !.nextReview = table[i].nextReview ] ]

\* updateAyahProgress(id, rating, elapsedTime) at time now
updateAyahProgress(table, id, rating, elapsedMs, now) ==
  LET i == RowIndex(table, id)
  IN  [ table EXCEPT ![i] = UpdatedProgress(table[i], rating, elapsedMs, now) ]

\* { 1: 0, 2: 0, 3: 0, 4: 0 }
NoIntervals == [ rating \in Ratings |-> 0 ]

\* calculateOptimalIntervals: the loop from rating on
RECURSIVE OptimalLoop(_, _, _, _, _)
OptimalLoop(card, rating, now, params, result) ==
  IF rating > 4 THEN [ card |-> card, result |-> result ]
  ELSE LET call == Scheduled(card, rating, now, params)
       IN  OptimalLoop(call.card, rating + 1, now, params,
                       [ result EXCEPT ![rating] = call.result.interval ])

\* calculateOptimalIntervals(card, now, params): the card object after the
\* call and the intervals returned
calculateOptimalIntervals(card, now, params) ==
  OptimalLoop(card, 1, now, params, NoIntervals)

\* CASE WHEN state = ... END of getDueAyahs' ORDER BY
StatePriority(state) ==
  CASE state = "new" -> 1
    [] state = "learning" -> 2
    [] state = "relearning" -> 3
    [] OTHER -> 4

\* WHERE nextReview IS NULL OR nextReview <= now
DueRows(table, now) ==
  { r \in Range(table) : r.nextReview = Null \/ r.nextReview <= now }

\* ORDER BY priority, nextReview (NULL first): one integer key per row
DueKey(rows) ==
  [ r \in rows |-> StatePriority(r.state) * (MaxClock + 6 * Day + 2) + r.nextReview + 1 ]

\* getDueAyahs(limit): the lists the query may return; LIMIT only if limit is truthy
getDueAyahs(table, now, limit) ==
  { IF limit # 0 THEN SubSeq(order, 1, Min(limit, Len(order))) ELSE order :
      order \in OrderBy(DueRows(table, now), DueKey(DueRows(table, now))) }

\* SELECT * WHERE groupId = ? ORDER BY groupPosition ASC
GroupRows(table, groupId) ==
  LET rows == { r \in Range(table) : r.groupId = groupId }
  IN  OrderBy(rows, [ r \in rows |-> r.groupPosition ])

\* getSessionAyahs' loop over dueAyahs from position i on
RECURSIVE SessionLoop(_, _, _, _)
SessionLoop(table, due, i, processedGroupIds) ==
  IF i > Len(due) THEN { << >> }
  ELSE LET ayah == due[i]
       IN  IF ayah.testWithGroup /\ ayah.groupId \notin processedGroupIds
           THEN UNION { { g \o rest :
                          rest \in SessionLoop(table, due, i + 1,
                                               processedGroupIds \cup {ayah.groupId}) } :
                        g \in GroupRows(table, ayah.groupId) }
           ELSE IF ~ayah.testWithGroup
           THEN { << ayah >> \o rest :
                  rest \in SessionLoop(table, due, i + 1, processedGroupIds) }
           ELSE SessionLoop(table, due, i + 1, processedGroupIds)

getSessionAyahs(table, now, limit) ==
  UNION { SessionLoop(table, due, 1, {}) : due \in getDueAyahs(table, now, limit) }

\* a seeded fault: every row is a unit of its own
DueUnitKeyPerRow(ayah) == ayah.id

\* the key of getTodayDueReviews' groupMap for a row
DueUnitKey(ayah) == IF ayah.testWithGroup THEN ayah.groupId ELSE ayah.id

\* the first row of a unit in the order the query returned the rows in
FirstOfUnit(rows, key) ==
  rows[CHOOSE i \in 1 .. Len(rows) :
         /\ DueUnitKey(rows[i]) = key
         /\ \A j \in 1 .. i - 1 : DueUnitKey(rows[j]) # key]

\* the counts getTodayDueReviews returns for the rows of its query
DueCounts(rows) ==
  LET keys == { DueUnitKey(rows[i]) : i \in 1 .. Len(rows) }
      states == [ k \in keys |-> FirstOfUnit(rows, k).state ]
      newCount == Cardinality({ k \in keys : states[k] = "new" })
      reviewCount == Cardinality({ k \in keys : states[k] = "review" })
  IN  [ due |-> Cardinality(keys), new |-> newCount,
        learning |-> Cardinality(keys) - newCount - reviewCount,
        review |-> reviewCount ]

\* getTodayDueReviews(): its SELECT has no ORDER BY
getTodayDueReviews(table, now) ==
  { DueCounts(rows) :
      rows \in OrderBy(DueRows(table, now), [ r \in DueRows(table, now) |-> 0 ]) }

(***************************************************************************)
(* SessionProvider (contexts/SessionContext).                              *)
(***************************************************************************)
NoAyah == NewProgressRow(Null, 0, Null, FALSE, 0)

ZeroRatings == [again |-> 0, hard |-> 0, good |-> 0, easy |-> 0]

NoStats == [id |-> Null, ratings |-> ZeroRatings]

\* the key of the unit an ayah is rated in
UnitKey(a) == IF a.testWithGroup THEN a.groupId ELSE a.id

\* the unique group ids, in the order they appear in the ayahs array
RECURSIVE UniqueGroupIds(_, _, _)
UniqueGroupIds(list, i, processedGroups) ==
  IF i > Len(list) THEN << >>
  ELSE IF UnitKey(list[i]) \in processedGroups
       THEN UniqueGroupIds(list, i + 1, processedGroups)
       ELSE << UnitKey(list[i]) >>
            \o UniqueGroupIds(list, i + 1, processedGroups \cup {UnitKey(list[i])})

InRange(list, idx) == idx >= 0 /\ idx < Len(list)

\* useEffect on [ayahIndex, ayahs]
CurrentOf(list, idx) == IF InRange(list, idx) THEN list[idx + 1] ELSE NoAyah

\* setInterval returns a handle no live ticker has
FreshTimer == CHOOSE id \in 1 .. Cardinality(intervals) + 1 : id \notin intervals

\* a seeded fault: a rating of Again counts as passed
calculateRetentionOfAll(ratings) ==
  LET total == ratings.again + ratings.hard + ratings.good + ratings.easy
      passed == ratings.again + ratings.hard + ratings.good + ratings.easy
  IN  IF total = 0 THEN 0 ELSE (passed * 100 * Milli) \div total

\* calculateRetention(ratings), a percentage in thousandths
calculateRetention(ratings) ==
  LET total == ratings.again + ratings.hard + ratings.good + ratings.easy
      passed == ratings.hard + ratings.good + ratings.easy
  IN  IF total = 0 THEN 0 ELSE (passed * 100 * Milli) \div total

\* a seeded fault: the tally grows once per item of a three-item unit
AddRatingPerItem(ratings, rating) ==
  CASE rating = 1 -> [ratings EXCEPT !.again = @ + 3]
    [] rating = 2 -> [ratings EXCEPT !.hard = @ + 3]
    [] rating = 3 -> [ratings EXCEPT !.good = @ + 3]
    [] rating = 4 -> [ratings EXCEPT !.easy = @ + 3]

AddRating(ratings, rating) ==
  CASE rating = 1 -> [ratings EXCEPT !.again = @ + 1]
    [] rating = 2 -> [ratings EXCEPT !.hard = @ + 1]
    [] rating = 3 -> [ratings EXCEPT !.good = @ + 1]
    [] rating = 4 -> [ratings EXCEPT !.easy = @ + 1]

\* the state a handler closes over when it is invoked
Closure ==
  [ currentAyah |-> currentAyah, ayahs |-> ayahs, ayahIndex |-> ayahIndex,
    uniqueGroups |-> uniqueGroups, uniqueGroupIndex |-> uniqueGroupIndex,
    sessionStats |-> sessionStats, totalReviewed |-> totalReviewed,
    newLearned |-> newLearned, elapsedTime |-> elapsedTime, timer |-> timer,
    isActive |-> isActive ]

\* rateAyah's writes: the current ayah, then its group siblings in list order
RateTargets(env) ==
  LET cur == env.currentAyah
      sibling(a) == a.groupId = cur.groupId /\ a.testWithGroup /\ a.id # cur.id
      siblings == SelectSeq(env.ayahs, sibling)
  IN  << cur.id >> \o
      (IF cur.testWithGroup
       THEN [ i \in 1 .. Len(siblings) |-> siblings[i].id ]
       ELSE << >>)

\* ayahs.findIndex of the first ayah of the unit, 0-based, -1 if none
FindUnitIndex(list, key) ==
  LET hits == { i \in 1 .. Len(list) : UnitKey(list[i]) = key }
  IN  IF hits = {} THEN 0 - 1
      ELSE (CHOOSE i \in hits : \A j \in hits : i <= j) - 1

\* goToNextAyah: the [ayahIndex, uniqueGroupIndex] it sets
goToNextAyah(env) ==
  LET idx == env.ayahIndex
      ugi == env.uniqueGroupIndex
      stay == [ayahIndex |-> idx, uniqueGroupIndex |-> ugi, moved |-> FALSE]
  IN  IF idx >= Len(env.ayahs) - 1 THEN stay
      ELSE IF env.currentAyah.testWithGroup
      THEN IF ugi < Len(env.uniqueGroups) - 1
           THEN LET nextGroupIndex == FindUnitIndex(env.ayahs, env.uniqueGroups[ugi + 2])
                IN  [ ayahIndex |-> IF nextGroupIndex # 0 - 1
                                    THEN nextGroupIndex ELSE idx + 1,
                      uniqueGroupIndex |-> ugi + 1, moved |-> TRUE ]
           ELSE stay
      ELSE [ ayahIndex |-> idx + 1,
             uniqueGroupIndex |-> IF ugi < Len(env.uniqueGroups) - 1
                                  THEN ugi + 1 ELSE ugi,
             moved |-> TRUE ]

\* the row updateSessionStatistics writes when a session ends
FinalStats(env, finalTotalReviewed, finalRatings) ==
  [ id |-> env.sessionStats.id,
    totalReviewed |-> finalTotalReviewed,
    newLearned |-> env.newLearned,
    reviewTime |-> env.elapsedTime,
    ratings |-> finalRatings,
    retention |-> calculateRetention(finalRatings) ]

updateSessionStatistics(table, row) ==
  [ i \in 1 .. Len(table) |-> IF table[i].id = row.id THEN row ELSE table[i] ]

\* endSession run with closure env; dbOk = FALSE is a write that throws.
\* stats, total and learned are the values the caller has set just before.
endSession(env, finalTotalReviewed, finalRatings, stats, total, learned, dbOk) ==
  LET persists == env.sessionStats.id # Null
      thrown == persists /\ ~dbOk
  IN  /\ timer' = IF env.timer # Null THEN Null ELSE timer
      /\ intervals' = IF env.timer # Null THEN intervals \ {env.timer} ELSE intervals
      /\ session_statistics' =
           IF persists /\ dbOk
           THEN updateSessionStatistics(session_statistics,
                  FinalStats(env, finalTotalReviewed, finalRatings))
           ELSE session_statistics
      /\ failures' = IF thrown THEN failures + 1 ELSE failures
      /\ totalReviewed' = total
      /\ newLearned' = learned
      /\ IF thrown
         THEN /\ sessionStats' = stats
              /\ UNCHANGED <<isActive, ayahs, ayahIndex, currentAyah,
                             uniqueGroups, uniqueGroupIndex>>
         ELSE /\ isActive' = FALSE
              /\ ayahs' = << >>
              /\ ayahIndex' = 0 - 1
              /\ currentAyah' = NoAyah
              /\ sessionStats' = NoStats
              /\ uniqueGroups' = << >>
              /\ uniqueGroupIndex' = 0 - 1

(***************************************************************************)
(* History variables.  evt is the last rateAyah invocation, hist the       *)
(* session started last.                                                   *)
(***************************************************************************)
\* what a rating event may change of the session, as it was when invoked
Snapshot ==
  [ currentId |-> currentAyah.id, ayahIndex |-> ayahIndex,
    uniqueGroupIndex |-> uniqueGroupIndex, sessionStats |-> sessionStats,
    totalReviewed |-> totalReviewed, newLearned |-> newLearned ]

NoSnapshot ==
  [ currentId |-> Null, ayahIndex |-> 0 - 1, uniqueGroupIndex |-> 0 - 1,
    sessionStats |-> NoStats, totalReviewed |-> 0, newLearned |-> 0 ]

NoEvt ==
  [ phase |-> "none", rating |-> 0, unit |-> Null, targets |-> << >>,
    before |-> << >>, env |-> NoSnapshot, written |-> 0, isRetry |-> FALSE,
    retryBase |-> << >>, ended |-> FALSE ]

NoHist ==
  [ units |-> << >>, rated |-> << >>, failed |-> FALSE,
    newRated |-> 0, how |-> "none", statsId |-> Null ]

(***************************************************************************)
(* Environment: the clock advances, a live ticker fires.                   *)
(***************************************************************************)
Tick ==
  /\ clock < MaxClock
  /\ clock' = clock + 1
  /\ UNCHANGED <<fsrsVars, groupVars, nextId, failures, dbVars, sessVars, runVars, ghostVars>>

TimerFire ==
  /\ intervals # {}
  /\ elapsedTime < MaxElapsed
  /\ elapsedTime' = elapsedTime + 1
  /\ UNCHANGED <<fsrsVars, groupVars, envVars, dbVars, runVars, ghostVars,
                 isActive, ayahs, ayahIndex, currentAyah, sessionStats,
                 uniqueGroups, uniqueGroupIndex, totalReviewed, newLearned,
                 startTime, ayahStartTime, loading, error, timer>>

(***************************************************************************)
(* Item records are created.                                               *)
(***************************************************************************)
\* createAyahProgress(surah, ayahNumber, groupId, testWithGroup), groupPosition 0
CreateAyahProgress(ayahNumber, groupId, testWithGroup) ==
  /\ ~HasProgress(ayah_progress, ayahNumber)
  /\ ayah_progress' = Append(ayah_progress,
                        NewProgressRow(nextId, ayahNumber, groupId, testWithGroup, 0))
  /\ nextId' = nextId + 1
  /\ UNCHANGED <<fsrsVars, groupVars, clock, failures, ayah_groups, session_statistics,
                 reviewLimit, sessVars, runVars, ghostVars>>

\* the rows addToLearningQueue inserts for a group before an INSERT throws
RECURSIVE CommitRows(_, _, _, _)
CommitRows(table, group, ayahNumber, id) ==
  IF ayahNumber > group.endAyah \/ HasProgress(table, ayahNumber) THEN << >>
  ELSE << NewProgressRow(id, ayahNumber, group.id, group.testAsGroup,
                         ayahNumber - group.startAyah + 1) >>
       \o CommitRows(table, group, ayahNumber + 1, id + 1)

\* the group row after addToLearningQueue has inserted all its records
QueuedGroup(group, rows) ==
  [ group EXCEPT !.ayahIds = [ i \in 1 .. Len(rows) |-> rows[i].id ],
                 !.state = "learning" ]

\* UPDATE ayah_groups SET ayahIds = ?, state = 'learning' WHERE id = ?
UpdateGroupQueued(table, id, rows) ==
  [ i \in 1 .. Len(table) |->
      IF table[i].id = id THEN QueuedGroup(table[i], rows) ELSE table[i] ]

\* the loop of addToLearningQueue over the selected groups of the screen;
\* st is [progress, groups, id, threw], an INSERT that throws ends the loop
RECURSIVE QueueSelected(_, _, _)
QueueSelected(selectedGroups, groups, st) ==
  IF selectedGroups = << >> \/ st.threw THEN st
  ELSE LET group == groups[Head(selectedGroups)]
           rows == CommitRows(st.progress, group, group.startAyah, st.id)
           complete == Len(rows) = group.endAyah - group.startAyah + 1
       IN  QueueSelected(Tail(selectedGroups), groups,
             [ progress |-> st.progress \o rows,
               groups |-> IF complete
                          THEN UpdateGroupQueued(st.groups, group.id, rows)
                          ELSE st.groups,
               id |-> st.id + Len(rows),
               threw |-> ~complete ])

NoQueued == [ n |-> 0, groups |-> << >>, threw |-> FALSE ]

\* addToLearningQueue with the groups at selectedGroups of the screen's groups
\* selected, in the order they were selected
AddToLearningQueue(selectedGroups) ==
  LET st == QueueSelected(selectedGroups, groupsReturned,
              [ progress |-> ayah_progress, groups |-> ayah_groups,
                id |-> nextId, threw |-> FALSE ])
  IN  /\ selectedGroups # << >>
      /\ ayah_progress' = st.progress
      /\ ayah_groups' = st.groups
      /\ nextId' = st.id
      /\ queued' = [ n |-> queued.n + 1,
                     groups |-> [ i \in 1 .. Len(selectedGroups) |->
                                    groupsReturned[selectedGroups[i]] ],
                     threw |-> st.threw ]
      /\ UNCHANGED <<fsrsVars, clock, failures, session_statistics, reviewLimit,
                     sessVars, runVars, ghostVars, surahAyahCount, groupsReturned,
                     grp, contentVars, structCall>>

(***************************************************************************)
(* utils/groupings.                                                        *)
(***************************************************************************)
NoGrp ==
  [ n |-> 0, size |-> 0, prevSize |-> 0, generated |-> FALSE,
    before |-> << >>, prevReturned |-> << >> ]

IsFixed(group) == group.groupType = "fixed"

IsNotFixed(group) == group.groupType # "fixed"

\* SELECT * FROM ayah_groups WHERE groupType = 'fixed' ORDER BY startAyah
ExistingFixed(table) ==
  LET rows == { r \in Range(table) : IsFixed(r) }
  IN  OrderBy(rows, [ r \in rows |-> r.startAyah ])

\* createGroupsForSurah(surah, 'fixed', groupingSize)
CreateGroupsForSurah(groupingSize) ==
  \E existingGroups \in ExistingFixed(ayah_groups) :
    LET firstGroupSize == existingGroups[1].endAyah - existingGroups[1].startAyah + 1
        kept == Len(existingGroups) > 0 /\ firstGroupSize = groupingSize
        groups == createFixedGroups(surahAyahCount, groupingSize, nextId)
    IN  /\ IF kept
           THEN /\ groupsReturned' = existingGroups
                /\ UNCHANGED <<ayah_groups, nextId>>
           ELSE /\ groupsReturned' = groups
                /\ ayah_groups' = SelectSeq(ayah_groups, IsNotFixed) \o groups
                /\ nextId' = nextId + Len(groups)
        /\ grp' = [ n |-> grp.n + 1, size |-> groupingSize, prevSize |-> grp.size,
                    generated |-> ~kept, before |-> ayah_groups,
                    prevReturned |-> groupsReturned ]
        /\ UNCHANGED <<fsrsVars, clock, failures, ayah_progress, session_statistics,
                       reviewLimit, sessVars, runVars, ghostVars, surahAyahCount,
                       contentVars, structCall, queued>>

(***************************************************************************)
(* services/quran/api: the content provider.  A row of quran_ayahs is      *)
(*   [ayahNumber, ruku, page, scriptType]                                  *)
(* (UNIQUE(surahNumber, ayahNumber, scriptType), so the table is a set),   *)
(* the surah's row of quran_surahs is [rukus, pages], and the store the    *)
(* provider works on is [ayahs, surahs, cache, threw].                     *)
(***************************************************************************)
Scripts == {"uthmani", "indopak"}

\* the responses of the HTTP calls: the request fails; the verses arrive and
\* the metadata request of the IndoPak branch fails; everything arrives
ApiOutcomes == {"fail", "nometa", "ok"}

SetMin(S) == CHOOSE x \in S : \A y \in S : x <= y

SetMax(S) == CHOOSE x \in S : \A y \in S : x >= y

\* rukus.sort((a, b) => a - b) of the distinct numbers collected
RECURSIVE SortedSeq(_)
SortedSeq(S) ==
  IF S = {} THEN << >> ELSE << SetMin(S) >> \o SortedSeq(S \ {SetMin(S)})

\* the rows saveAyahsToDatabase writes, with the API's ruku and page or with
\* the 0 the IndoPak branch writes first
ApiRows(script, withMeta) ==
  { [ ayahNumber |-> i,
      ruku |-> IF withMeta THEN apiAyahs[i].ruku ELSE 0,
      page |-> IF withMeta THEN apiAyahs[i].page ELSE 0,
      scriptType |-> script ] : i \in 1 .. Len(apiAyahs) }

\* the rukus and pages written by UPDATE quran_surahs SET rukus = ?, pages = ?
ApiSurah ==
  [ rukus |-> SortedSeq({ apiAyahs[i].ruku : i \in 1 .. Len(apiAyahs) }),
    pages |-> SortedSeq({ apiAyahs[i].page : i \in 1 .. Len(apiAyahs) }) ]

\* fetchAyahsForSurah(surahNumber) on store c with settings.quranScript =
\* script and the API answering with api
fetchAyahsForSurah(c, script, api) ==
  IF script \in c.cache THEN [ c EXCEPT !.threw = FALSE ]
  ELSE IF \E r \in c.ayahs : r.scriptType = script
  THEN [ c EXCEPT !.cache = @ \cup {script}, !.threw = FALSE ]
  ELSE IF api = "fail" THEN [ c EXCEPT !.threw = TRUE ]
  ELSE IF script = "indopak" /\ api = "nometa"
  THEN [ ayahs |-> c.ayahs \cup ApiRows(script, FALSE),
         surahs |-> c.surahs,
         cache |-> c.cache \cup {script},
         threw |-> FALSE ]
  ELSE [ ayahs |-> c.ayahs \cup ApiRows(script, TRUE),
         surahs |-> ApiSurah,
         cache |-> c.cache \cup {script},
         threw |-> FALSE ]

\* the store as the tables hold it
Store ==
  [ ayahs |-> quran_ayahs, surahs |-> quran_surahs, cache |-> ayahsCache,
    threw |-> FALSE ]

\* start, start + step, ... up to ayahCount
RECURSIVE StepsFrom(_, _, _)
StepsFrom(start, step, ayahCount) ==
  IF start > ayahCount THEN << >>
  ELSE << start >> \o StepsFrom(start + step, step, ayahCount)

generateDefaultRukus(ayahCount) ==
  IF ayahCount <= 10 THEN << 1 >>
  ELSE IF ayahCount <= 50 THEN << 1 >> \o StepsFrom(11, 10, ayahCount)
  ELSE << 1 >> \o StepsFrom(16, 15, ayahCount)

generateDefaultPages(ayahCount) ==
  IF ayahCount <= 15 THEN << 1 >> ELSE << 1 >> \o StepsFrom(16, 15, ayahCount)

(***************************************************************************)
(* utils/groupings: the structural methods (ruku, page).                   *)
(***************************************************************************)
Methods == {"ruku", "page"}

NoStruct ==
  [ n |-> 0, method |-> "none", prevMethod |-> "none", generated |-> FALSE,
    fallback |-> FALSE, before |-> << >>, prevReturned |-> << >> ]

\* surah.rukus or surah.pages
SurahField(surah, method) == IF method = "ruku" THEN surah.rukus ELSE surah.pages

\* ayah.ruku or ayah.page
AyahField(row, method) == IF method = "ruku" THEN row.ruku ELSE row.page

\* the keys of rukuMap (pageMap) in the order Map keeps them: first insertion
RECURSIVE MapKeys(_, _, _)
MapKeys(rows, method, keys) ==
  IF rows = << >> THEN keys
  ELSE LET k == AyahField(Head(rows), method)
       IN  MapKeys(Tail(rows), method,
                   IF k \in Range(keys) THEN keys ELSE Append(keys, k))

\* the groups pushed by the loop over rukuMap.entries(): for each number the
\* least and the greatest ayahNumber seen with it
BoundaryGroups(rows, method, firstId) ==
  LET keys == MapKeys(rows, method, << >>)
      Seen(k) == { rows[i].ayahNumber :
                     i \in { j \in 1 .. Len(rows) : AyahField(rows[j], method) = k } }
  IN  [ i \in 1 .. Len(keys) |->
          [ id |-> firstId + i - 1,
            startAyah |-> SetMin(Seen(keys[i])),
            endAyah |-> SetMax(Seen(keys[i])),
            groupType |-> method,
            state |-> "new",
            ayahIds |-> << >>,
            testAsGroup |-> TRUE ] ]

\* groups.sort((a, b) => a.startAyah - b.startAyah), a stable sort
RECURSIVE SortByStart(_)
SortByStart(groups) ==
  IF groups = << >> THEN << >>
  ELSE LET sorted == SortByStart(SubSeq(groups, 1, Len(groups) - 1))
           last == groups[Len(groups)]
           IsBefore(g) == g.startAyah <= last.startAyah
           IsAfter(g) == g.startAyah > last.startAyah
       IN  SelectSeq(sorted, IsBefore) \o << last >> \o SelectSeq(sorted, IsAfter)

\* a seeded fault: the fallback takes runs of 10
FallbackOfTen(ayahCount, firstId) == createFixedGroups(ayahCount, 10, firstId)

\* return createFixedGroups(surah, 5) of createRukuGroups and createPageGroups
FallbackGroups(ayahCount, firstId) == createFixedGroups(ayahCount, 5, firstId)

\* SELECT * FROM quran_ayahs WHERE surahNumber = ? ORDER BY ayahNumber: the
\* rows of every script, ascending in ayahNumber; the two rows of one ayah come
\* in the order the engine's plan gives them (by rowid or by the UNIQUE
\* index), the same for the whole result
RowsBy(rows, first) ==
  LET Key(r) == 2 * r.ayahNumber + (IF r.scriptType = first THEN 0 ELSE 1)
      keys == SortedSeq({ Key(r) : r \in rows })
  IN  [ i \in 1 .. Len(keys) |-> CHOOSE r \in rows : Key(r) = keys[i] ]

QueryAyahs(rows) == { RowsBy(rows, first) : first \in Scripts }

\* the answers the API can give to fetchAyahsForSurah on store c: it is asked
\* only when neither the cache nor the table has the script's ayahs, and only
\* the IndoPak branch makes a second request
Answers(c, script) ==
  IF script \in c.cache \/ \E r \in c.ayahs : r.scriptType = script THEN {"ok"}
  ELSE IF script = "indopak" THEN ApiOutcomes
  ELSE {"fail", "ok"}

\* createGroupsForSurah(surah, groupingMethod) for a structural method; stale
\* is the caller's surah object carrying no rukus and no pages (fetchSurahs
\* answered from its cache), api1 and api2 are the API's answers to the fetch
\* of createGroupsForSurah and to the fetch of createRukuGroups
CreateGroupsForSurahBy(groupingMethod, stale) ==
  LET arg == IF stale THEN [ rukus |-> << >>, pages |-> << >> ] ELSE quran_surahs
      needFetch == arg.rukus = << >> \/ arg.pages = << >>
      existing == { r \in Range(ayah_groups) : r.groupType = groupingMethod }
      Record(generated, fallback) ==
        [ n |-> structCall.n + 1, method |-> groupingMethod,
          prevMethod |-> structCall.method, generated |-> generated,
          fallback |-> fallback, before |-> ayah_groups,
          prevReturned |-> groupsReturned ]
      Keep(c) ==
        /\ quran_ayahs' = c.ayahs
        /\ quran_surahs' = c.surahs
        /\ ayahsCache' = c.cache
  IN  /\ \E api1 \in IF needFetch THEN Answers(Store, quranScript) ELSE {"ok"} :
           LET f1 == fetchAyahsForSurah(Store, quranScript, api1)
               c1 == IF needFetch THEN f1 ELSE Store
               surah1 == IF needFetch /\ ~f1.threw THEN c1.surahs ELSE arg
               missing == SurahField(surah1, groupingMethod) = << >>
           IN  \E existingGroups \in OrderBy(existing, [ r \in existing |-> r.startAyah ]) :
                 IF Len(existingGroups) > 0
                 THEN /\ groupsReturned' = existingGroups
                      /\ structCall' = Record(FALSE, FALSE)
                      /\ Keep(c1)
                      /\ UNCHANGED <<ayah_groups, nextId>>
                 ELSE \E api2 \in IF missing THEN Answers(c1, quranScript) ELSE {"ok"} :
                        LET f2 == fetchAyahsForSurah(c1, quranScript, api2)
                            c2 == IF missing THEN f2 ELSE c1
                            field2 ==
                              IF missing /\ ~f2.threw
                              THEN SurahField(c2.surahs, groupingMethod)
                              ELSE SurahField(surah1, groupingMethod)
                        IN  \E rows \in QueryAyahs(c2.ayahs) :
                              LET fallback == field2 = << >> \/ Len(rows) = 0
                                  groups ==
                                    IF fallback
                                    THEN FallbackGroups(surahAyahCount, nextId)
                                    ELSE SortByStart(BoundaryGroups(rows, groupingMethod, nextId))
                                  kept ==
                                    IF fallback THEN SelectSeq(ayah_groups, IsNotFixed)
                                    ELSE ayah_groups
                              IN  /\ groupsReturned' = groups
                                  /\ ayah_groups' = kept \o groups
                                  /\ nextId' = nextId + Len(groups)
                                  /\ structCall' = Record(TRUE, fallback)
                                  /\ Keep(c2)
      /\ UNCHANGED <<fsrsVars, clock, failures, ayah_progress, session_statistics,
                     reviewLimit, sessVars, runVars, ghostVars, surahAyahCount,
                     grp, apiAyahs, quranScript, queued>>

\* fetchAyahsForSurah as the screens call it
FetchAyahs(api) ==
  LET c == fetchAyahsForSurah(Store, quranScript, api)
  IN  /\ api \in Answers(Store, quranScript)
      /\ c # Store
      /\ quran_ayahs' = c.ayahs
      /\ quran_surahs' = c.surahs
      /\ ayahsCache' = c.cache
      /\ UNCHANGED <<fsrsVars, envVars, dbVars, sessVars, runVars, ghostVars,
                     surahAyahCount, groupsReturned, grp, apiAyahs, quranScript,
                     structCall, queued>>

\* updateSettings({ quranScript: script })
SetQuranScript(script) ==
  /\ script # quranScript
  /\ quranScript' = script
  /\ UNCHANGED <<fsrsVars, envVars, dbVars, sessVars, runVars, ghostVars,
                 surahAyahCount, groupsReturned, grp, apiAyahs, quran_ayahs,
                 quran_surahs, ayahsCache, structCall, queued>>

\* checkAndUpdateSurahData for the surah
CheckAndUpdateSurahData ==
  /\ quran_surahs.rukus = << >> \/ quran_surahs.pages = << >>
  /\ quran_surahs' =
       [ rukus |-> IF quran_surahs.rukus = << >>
                   THEN generateDefaultRukus(surahAyahCount) ELSE quran_surahs.rukus,
         pages |-> IF quran_surahs.pages = << >>
                   THEN generateDefaultPages(surahAyahCount) ELSE quran_surahs.pages ]
  /\ UNCHANGED <<fsrsVars, envVars, dbVars, sessVars, runVars, ghostVars,
                 surahAyahCount, groupsReturned, grp, apiAyahs, quran_ayahs,
                 ayahsCache, quranScript, structCall, queued>>

(***************************************************************************)
(* Session actions.                                                        *)
(***************************************************************************)
\* a seeded fault: the statistics record is created before the due list is
\* looked at
StartSessionRecording(dueAyahs, dbOk) ==
  /\ UNCHANGED <<fsrsVars, groupVars, clock, ayah_groups, ayah_progress, reviewLimit, calls>>
  /\ loading' = FALSE
  /\ IF Len(dueAyahs) = 0
     THEN /\ error' = "No ayahs due for review"
          /\ nextId' = nextId + 1
          /\ session_statistics' =
               Append(session_statistics,
                 [ id |-> nextId, totalReviewed |-> 0, newLearned |-> 0,
                   reviewTime |-> 0, ratings |-> ZeroRatings, retention |-> 0 ])
          /\ UNCHANGED <<failures, isActive, ayahs,
                         ayahIndex, currentAyah, sessionStats, uniqueGroups,
                         uniqueGroupIndex, totalReviewed, newLearned, startTime,
                         elapsedTime, ayahStartTime, timer, intervals, started,
                         evt, hist>>
     ELSE IF ~dbOk
     THEN /\ error' = "Failed to start review session"
          /\ failures' = failures + 1
          /\ UNCHANGED <<nextId, session_statistics, isActive, ayahs,
                         ayahIndex, currentAyah, sessionStats, uniqueGroups,
                         uniqueGroupIndex, totalReviewed, newLearned, startTime,
                         elapsedTime, ayahStartTime, timer, intervals, started,
                         evt, hist>>
     ELSE LET stats == [ id |-> nextId, ratings |-> ZeroRatings ]
              row == [ id |-> nextId, totalReviewed |-> 0, newLearned |-> 0,
                       reviewTime |-> 0, ratings |-> ZeroRatings, retention |-> 0 ]
          IN  /\ error' = "none"
              /\ nextId' = nextId + 1
              /\ failures' = failures
              /\ session_statistics' = Append(session_statistics, row)
              /\ ayahs' = dueAyahs
              /\ ayahIndex' = 0
              /\ sessionStats' = stats
              /\ totalReviewed' = 0
              /\ newLearned' = 0
              /\ startTime' = clock
              /\ elapsedTime' = 0
              /\ isActive' = TRUE
              /\ timer' = FreshTimer
              /\ intervals' = intervals \cup {FreshTimer}
              \* the effects on [ayahIndex, ayahs] and on [ayahs]
              /\ currentAyah' = CurrentOf(dueAyahs, 0)
              /\ ayahStartTime' = clock
              /\ uniqueGroups' = UniqueGroupIds(dueAyahs, 1, {})
              /\ uniqueGroupIndex' = IF uniqueGroupIndex = 0 - 1 THEN 0
                                     ELSE uniqueGroupIndex
              /\ started' = started + 1
              /\ evt' = NoEvt
              /\ hist' = [ units |-> UniqueGroupIds(dueAyahs, 1, {}),
                           rated |-> << >>,
                           failed |-> FALSE,
                           newRated |-> 0,
                           how |-> "open",
                           statsId |-> nextId ]

\* startSession, with dueAyahs the list getSessionAyahs returned; dbOk = FALSE
\* is createSessionStatistics throwing
StartSession(dueAyahs, dbOk) ==
  /\ UNCHANGED <<fsrsVars, groupVars, clock, ayah_groups, ayah_progress, reviewLimit, calls>>
  /\ loading' = FALSE
  /\ IF Len(dueAyahs) = 0
     THEN /\ error' = "No ayahs due for review"
          /\ UNCHANGED <<nextId, failures, session_statistics, isActive, ayahs,
                         ayahIndex, currentAyah, sessionStats, uniqueGroups,
                         uniqueGroupIndex, totalReviewed, newLearned, startTime,
                         elapsedTime, ayahStartTime, timer, intervals, started,
                         evt, hist>>
     ELSE IF ~dbOk
     THEN /\ error' = "Failed to start review session"
          /\ failures' = failures + 1
          /\ UNCHANGED <<nextId, session_statistics, isActive, ayahs,
                         ayahIndex, currentAyah, sessionStats, uniqueGroups,
                         uniqueGroupIndex, totalReviewed, newLearned, startTime,
                         elapsedTime, ayahStartTime, timer, intervals, started,
                         evt, hist>>
     ELSE LET stats == [ id |-> nextId, ratings |-> ZeroRatings ]
              row == [ id |-> nextId, totalReviewed |-> 0, newLearned |-> 0,
                       reviewTime |-> 0, ratings |-> ZeroRatings, retention |-> 0 ]
          IN  /\ error' = "none"
              /\ nextId' = nextId + 1
              /\ failures' = failures
              /\ session_statistics' = Append(session_statistics, row)
              /\ ayahs' = dueAyahs
              /\ ayahIndex' = 0
              /\ sessionStats' = stats
              /\ totalReviewed' = 0
              /\ newLearned' = 0
              /\ startTime' = clock
              /\ elapsedTime' = 0
              /\ isActive' = TRUE
              /\ timer' = FreshTimer
              /\ intervals' = intervals \cup {FreshTimer}
              \* the effects on [ayahIndex, ayahs] and on [ayahs]
              /\ currentAyah' = CurrentOf(dueAyahs, 0)
              /\ ayahStartTime' = clock
              /\ uniqueGroups' = UniqueGroupIds(dueAyahs, 1, {})
              /\ uniqueGroupIndex' = IF uniqueGroupIndex = 0 - 1 THEN 0
                                     ELSE uniqueGroupIndex
              /\ started' = started + 1
              /\ evt' = NoEvt
              /\ hist' = [ units |-> UniqueGroupIds(dueAyahs, 1, {}),
                           rated |-> << >>,
                           failed |-> FALSE,
                           newRated |-> 0,
                           how |-> "open",
                           statsId |-> nextId ]

\* pauseSession
PauseSession ==
  /\ timer' = Null
  /\ intervals' = IF timer # Null THEN intervals \ {timer} ELSE intervals
  /\ UNCHANGED <<fsrsVars, groupVars, envVars, dbVars, calls, ghostVars,
                 isActive, ayahs, ayahIndex, currentAyah, sessionStats,
                 uniqueGroups, uniqueGroupIndex, totalReviewed, newLearned,
                 startTime, elapsedTime, ayahStartTime, loading, error>>

\* resumeSession
ResumeSession ==
  /\ timer' = IF timer = Null THEN FreshTimer ELSE timer
  /\ intervals' = IF timer = Null THEN intervals \cup {FreshTimer} ELSE intervals
  /\ UNCHANGED <<fsrsVars, groupVars, envVars, dbVars, calls, ghostVars,
                 isActive, ayahs, ayahIndex, currentAyah, sessionStats,
                 uniqueGroups, uniqueGroupIndex, totalReviewed, newLearned,
                 startTime, elapsedTime, ayahStartTime, loading, error>>

\* resetSession
ResetSession ==
  /\ timer' = Null
  /\ intervals' = IF timer # Null THEN intervals \ {timer} ELSE intervals
  /\ isActive' = FALSE
  /\ ayahs' = << >>
  /\ ayahIndex' = 0 - 1
  /\ currentAyah' = NoAyah
  /\ sessionStats' = NoStats
  /\ totalReviewed' = 0
  /\ newLearned' = 0
  /\ startTime' = Null
  /\ elapsedTime' = 0
  /\ uniqueGroups' = << >>
  /\ uniqueGroupIndex' = 0 - 1
  /\ hist' = IF isActive THEN [hist EXCEPT !.how = "reset"] ELSE hist
  /\ evt' = NoEvt
  /\ UNCHANGED <<fsrsVars, groupVars, envVars, dbVars, calls, started,
                 ayahStartTime, loading, error>>

RemoveAt(seq, i) == SubSeq(seq, 1, i - 1) \o SubSeq(seq, i + 1, Len(seq))

\* rateAyah is invoked: the closure is taken, the elapsed time computed
RateBegin(rating) ==
  LET env == Closure
      retried == /\ evt.phase = "failed"
                 /\ evt.rating = rating
                 /\ evt.env.currentId = currentAyah.id
                 /\ evt.env.sessionStats.id = sessionStats.id
                 /\ (evt.written >= 1 \/ evt.isRetry)
  IN  /\ currentAyah.id # Null
      /\ calls' = Append(calls,
                    [ rating |-> rating,
                      elapsed |-> IF ayahStartTime # Null
                                  THEN clock - ayahStartTime ELSE 0,
                      env |-> env,
                      todo |-> RateTargets(env),
                      written |-> 0,
                      read |-> NoAyah ])
      /\ evt' = [ phase |-> "running", rating |-> rating,
                  unit |-> UnitKey(currentAyah),
                  targets |-> RateTargets(env),
                  before |-> ayah_progress,
                  env |-> Snapshot,
                  written |-> 0,
                  isRetry |-> retried,
                  retryBase |-> IF ~retried THEN << >>
                                ELSE IF evt.isRetry THEN evt.retryBase
                                ELSE evt.before,
                  ended |-> FALSE ]
      /\ UNCHANGED <<fsrsVars, groupVars, envVars, dbVars, sessVars, intervals, started, hist>>

\* a seeded fault: the catch block moves on to the next ayah
RateWriteAdvancing(i, dbOk) ==
  LET c == calls[i]
      id == Head(c.todo)
      done == dbOk /\ RowIndex(ayah_progress, id) # 0
      next == goToNextAyah(c.env)
  IN  /\ c.todo # << >>
      /\ IF done
         THEN /\ ayah_progress' =
                   updateAyahProgress(ayah_progress, id, c.rating, c.elapsed, clock)
              /\ calls' = [ calls EXCEPT ![i].todo = Tail(@), ![i].written = @ + 1 ]
              /\ evt' = [ evt EXCEPT !.written = @ + 1 ]
              /\ UNCHANGED <<failures, hist, ayahIndex, uniqueGroupIndex, currentAyah>>
         ELSE /\ calls' = RemoveAt(calls, i)
              /\ evt' = [ evt EXCEPT !.phase = "failed" ]
              /\ hist' = [ hist EXCEPT !.failed = TRUE ]
              /\ failures' = failures + 1
              /\ ayahIndex' = next.ayahIndex
              /\ uniqueGroupIndex' = next.uniqueGroupIndex
              /\ currentAyah' = CurrentOf(ayahs, next.ayahIndex)
              /\ UNCHANGED ayah_progress
      /\ UNCHANGED <<fsrsVars, groupVars, clock, nextId, ayah_groups, session_statistics,
                     reviewLimit, intervals, started,
                     isActive, ayahs, uniqueGroups, sessionStats, totalReviewed,
                     newLearned, startTime, elapsedTime, ayahStartTime, loading,
                     error, timer>>

\* one await updateAyahProgress of invocation i; dbOk = FALSE is a write that throws
RateWrite(i, dbOk) ==
  LET c == calls[i]
      id == Head(c.todo)
      done == dbOk /\ RowIndex(ayah_progress, id) # 0
  IN  /\ c.todo # << >>
      /\ IF done
         THEN /\ ayah_progress' =
                   updateAyahProgress(ayah_progress, id, c.rating, c.elapsed, clock)
              /\ calls' = [ calls EXCEPT ![i].todo = Tail(@), ![i].written = @ + 1 ]
              /\ evt' = [ evt EXCEPT !.written = @ + 1 ]
              /\ UNCHANGED <<failures, hist>>
         ELSE /\ calls' = RemoveAt(calls, i)
              /\ evt' = [ evt EXCEPT !.phase = "failed" ]
              /\ hist' = [ hist EXCEPT !.failed = TRUE ]
              /\ failures' = failures + 1
              /\ UNCHANGED ayah_progress
      /\ UNCHANGED <<fsrsVars, groupVars, clock, nextId, ayah_groups, session_statistics,
                     reviewLimit, sessVars, intervals, started>>

\* updateAyahProgress of invocation i up to its first await: the SELECT of the
\* row of the next target
RateRead(i) ==
  LET c == calls[i]
      id == Head(c.todo)
  IN  /\ c.todo # << >>
      /\ c.read.id = Null
      /\ RowIndex(ayah_progress, id) # 0
      /\ calls' = [ calls EXCEPT ![i].read = ayah_progress[RowIndex(ayah_progress, id)] ]
      /\ UNCHANGED <<fsrsVars, groupVars, envVars, dbVars, sessVars, intervals,
                     ghostVars>>

\* updateAyahProgress of invocation i from there on: the UPDATE with the values
\* computed from the row that was read
RateUpdate(i) ==
  LET c == calls[i]
      k == RowIndex(ayah_progress, c.read.id)
  IN  /\ c.read.id # Null
      /\ ayah_progress' =
           [ ayah_progress EXCEPT ![k] = UpdatedProgress(c.read, c.rating, c.elapsed, clock) ]
      /\ calls' = [ calls EXCEPT ![i].todo = Tail(@), ![i].written = @ + 1,
                                 ![i].read = NoAyah ]
      /\ evt' = [ evt EXCEPT !.written = @ + 1 ]
      /\ UNCHANGED <<fsrsVars, groupVars, envVars, ayah_groups, session_statistics,
                     reviewLimit, sessVars, intervals, started, hist>>

\* invocation i after its writes: statistics, then endSession or goToNextAyah
RateFinish(i, dbOk) ==
  LET c == calls[i]
      env == c.env
      hasStats == env.sessionStats.id # Null
      updatedRatings == IF hasStats THEN AddRating(env.sessionStats.ratings, c.rating)
                        ELSE ZeroRatings
      stats == IF hasStats THEN [ env.sessionStats EXCEPT !.ratings = updatedRatings ]
               ELSE sessionStats
      newTotalReviewed == env.totalReviewed + 1
      learned == IF env.currentAyah.state = "new" THEN newLearned + 1 ELSE newLearned
      isLastAyah == env.ayahIndex >= Len(env.ayahs) - 1
      isLastGroup == env.uniqueGroupIndex >= Len(env.uniqueGroups) - 1
      last == isLastAyah \/ (env.currentAyah.testWithGroup /\ isLastGroup)
      thrown == last /\ hasStats /\ ~dbOk
      next == goToNextAyah(env)
      wasNew == /\ RowIndex(evt.before, env.currentAyah.id) # 0
                /\ evt.before[RowIndex(evt.before, env.currentAyah.id)].state = "new"
  IN  /\ c.todo = << >>
      /\ (last /\ hasStats) \/ dbOk
      /\ calls' = RemoveAt(calls, i)
      /\ IF last
         THEN /\ endSession(env, newTotalReviewed, updatedRatings, stats,
                            newTotalReviewed, learned, dbOk)
              /\ UNCHANGED ayahStartTime
         ELSE /\ sessionStats' = stats
              /\ totalReviewed' = newTotalReviewed
              /\ newLearned' = learned
              /\ ayahIndex' = next.ayahIndex
              /\ uniqueGroupIndex' = next.uniqueGroupIndex
              /\ currentAyah' = CurrentOf(ayahs, next.ayahIndex)
              /\ ayahStartTime' = IF next.ayahIndex # ayahIndex /\ InRange(ayahs, next.ayahIndex)
                                  THEN clock ELSE ayahStartTime
              /\ UNCHANGED <<failures, session_statistics, isActive, ayahs,
                             uniqueGroups, timer, intervals>>
      /\ evt' = [ evt EXCEPT !.phase = "rated", !.ended = last ]
      /\ hist' = [ hist EXCEPT
                     !.rated = Append(@, evt.unit),
                     !.newRated = IF wasNew THEN @ + 1 ELSE @,
                     !.failed = @ \/ thrown,
                     !.how = IF last /\ ~thrown THEN "exhausted" ELSE @ ]
      /\ UNCHANGED <<fsrsVars, groupVars, clock, nextId, ayah_groups, ayah_progress, reviewLimit,
                     startTime, elapsedTime, loading, error, started>>

\* endSession() from the exit dialog
EndSession(dbOk) ==
  LET thrown == sessionStats.id # Null /\ ~dbOk
  IN  /\ sessionStats.id # Null \/ dbOk
      /\ endSession(Closure, totalReviewed, sessionStats.ratings, sessionStats,
                    totalReviewed, newLearned, dbOk)
      /\ hist' = [ hist EXCEPT
                     !.failed = @ \/ thrown,
                     !.how = IF isActive /\ ~thrown THEN "explicit" ELSE @ ]
      /\ UNCHANGED <<fsrsVars, groupVars, clock, nextId, ayah_groups, ayah_progress, reviewLimit,
                     startTime, elapsedTime, ayahStartTime, loading, error,
                     calls, started, evt>>

(***************************************************************************)
(* Initial values.                                                         *)
(***************************************************************************)
FsIdle ==
  /\ fsCard = initializeCard
  /\ fsRating = 1
  /\ fsNow = 0
  /\ fsOut = initializeCard
  /\ fsPc = "idle"
  /\ fsTrail = << >>
  /\ fsIntervals = NoIntervals

\* nothing fetched, nothing grouped by structure, nothing queued
ContentIdle ==
  /\ apiAyahs = << >>
  /\ quran_ayahs = {}
  /\ quran_surahs = [ rukus |-> << >>, pages |-> << >> ]
  /\ ayahsCache = {}
  /\ quranScript = "uthmani"
  /\ structCall = NoStruct
  /\ queued = NoQueued

SessionIdle ==
  /\ isActive = FALSE
  /\ ayahs = << >>
  /\ ayahIndex = 0 - 1
  /\ currentAyah = NoAyah
  /\ sessionStats = NoStats
  /\ uniqueGroups = << >>
  /\ uniqueGroupIndex = 0 - 1
  /\ totalReviewed = 0
  /\ newLearned = 0
  /\ startTime = Null
  /\ elapsedTime = 0
  /\ ayahStartTime = Null
  /\ loading = FALSE
  /\ error = "none"
  /\ timer = Null
  /\ intervals = {}
  /\ calls = << >>
  /\ started = 0
  /\ evt = NoEvt
  /\ hist = NoHist

(***************************************************************************)
(* The session specification: one surah whose fixed groups are stored;     *)
(* records are committed before the first session; handlers are invoked    *)
(* one after the other (no invocation starts while a rateAyah is in        *)
(* flight).                                                                *)
(***************************************************************************)
\* the stored groups before any commitment
InitialGroups == createFixedGroups(SessionAyahCount, SessionGroupSize, 1)

\* createAyahProgress with its default arguments for every ayah of a group
RECURSIVE SingleRows(_, _, _)
SingleRows(group, ayahNumber, id) ==
  IF ayahNumber > group.endAyah THEN << >>
  ELSE << NewProgressRow(id, ayahNumber, group.id, FALSE, 0) >>
       \o SingleRows(group, ayahNumber + 1, id + 1)

\* how the records of a group came to be: "queue" is addToLearningQueue,
\* "single" is createAyahProgress for each ayah, "partial" is createAyahProgress
\* for the second ayah and then addToLearningQueue, whose INSERT of that ayah
\* throws; "none" leaves the group uncommitted
PlanModes(group) ==
  IF group.startAyah = 1 THEN {"queue"} ELSE {"queue", "single", "none"}

Plans ==
  { plan \in [ 1 .. Len(InitialGroups) -> {"queue", "single", "partial", "none"} ] :
      \A g \in 1 .. Len(InitialGroups) : plan[g] \in PlanModes(InitialGroups[g]) }

PlanRows(table, group, mode, id) ==
  CASE mode = "queue" -> CommitRows(table, group, group.startAyah, id)
    [] mode = "single" -> SingleRows(group, group.startAyah, id)
    [] mode = "partial" ->
         LET one == << NewProgressRow(id, group.startAyah + 1, group.id, FALSE, 0) >>
         IN  one \o CommitRows(table \o one, group, group.startAyah, id + 1)
    [] OTHER -> << >>

RECURSIVE Populated(_, _, _)
Populated(plan, g, table) ==
  IF g > Len(InitialGroups) THEN table
  ELSE Populated(plan, g + 1,
         table \o PlanRows(table, InitialGroups[g], plan[g],
                           Len(InitialGroups) + Len(table) + 1))

PlannedGroups(plan, table) ==
  [ g \in 1 .. Len(InitialGroups) |->
      IF plan[g] = "queue"
      THEN QueuedGroup(InitialGroups[g],
                       SelectSeq(table, LAMBDA r : r.groupId = InitialGroups[g].id))
      ELSE InitialGroups[g] ]

InitSession ==
  /\ FsIdle
  /\ SessionIdle
  /\ ContentIdle
  /\ surahAyahCount = SessionAyahCount
  /\ groupsReturned = InitialGroups
  /\ grp = NoGrp
  /\ clock = 0
  /\ failures = 0
  /\ \E plan \in Plans :
       /\ ayah_progress = Populated(plan, 1, << >>)
       /\ ayah_groups = PlannedGroups(plan, Populated(plan, 1, << >>))
  /\ nextId = Len(ayah_groups) + Len(ayah_progress) + 1
  /\ session_statistics = << >>
  /\ reviewLimit = DefaultReviewLimit

MayFail == IF failures < MaxFailures THEN BOOLEAN ELSE {TRUE}

SeqStart ==
  /\ calls = << >>
  /\ started < MaxSessions
  /\ \E dueAyahs \in getSessionAyahs(ayah_progress, clock, reviewLimit), dbOk \in MayFail :
       StartSession(dueAyahs, dbOk)

SeqRate ==
  /\ calls = << >>
  /\ \E rating \in Ratings : RateBegin(rating)

StepWrite == \E i \in 1 .. Len(calls), dbOk \in MayFail : RateWrite(i, dbOk)

StepFinish == \E i \in 1 .. Len(calls), dbOk \in MayFail : RateFinish(i, dbOk)

SeqEnd ==
  /\ calls = << >>
  /\ \E dbOk \in MayFail : EndSession(dbOk)

SeqPause == calls = << >> /\ PauseSession

SeqResume == calls = << >> /\ ResumeSession

SeqReset == calls = << >> /\ ResetSession

NextSession ==
  \/ SeqStart
  \/ SeqRate
  \/ StepWrite
  \/ StepFinish
  \/ SeqEnd

\* handlers run one after the other, the clock stands still, writes may throw
SpecSession == InitSession /\ [][NextSession]_vars

TimedStart ==
  /\ calls = << >>
  /\ started < MaxTimedSessions
  /\ \E dueAyahs \in getSessionAyahs(ayah_progress, clock, reviewLimit) :
       StartSession(dueAyahs, TRUE)

TimedWrite == \E i \in 1 .. Len(calls) : RateWrite(i, TRUE)

TimedFinish == \E i \in 1 .. Len(calls) : RateFinish(i, TRUE)

TimedEnd == calls = << >> /\ EndSession(TRUE)

NextTimed ==
  \/ Tick
  \/ TimerFire
  \/ TimedStart
  \/ SeqRate
  \/ TimedWrite
  \/ TimedFinish
  \/ TimedEnd

\* handlers run one after the other while the clock advances and the ticker
\* fires at any moment, also between two awaits of a handler; no write throws
SpecTimed == InitSession /\ [][NextTimed]_vars

(***************************************************************************)
(* The lifecycle specification: the handlers of the SessionProvider        *)
(* invoked one after the other in any order, pauseSession and              *)
(* resumeSession among them, startSession also during a session; the       *)
(* live tickers are kept track of but none fires, the device clock stands  *)
(* still and no write throws.                                              *)
(***************************************************************************)
LifeStart ==
  /\ calls = << >>
  /\ started < MaxLifeSessions
  /\ \E dueAyahs \in getSessionAyahs(ayah_progress, clock, reviewLimit) :
       StartSession(dueAyahs, TRUE)

NextLife ==
  \/ LifeStart
  \/ SeqRate
  \/ TimedWrite
  \/ TimedFinish
  \/ SeqPause
  \/ SeqResume
  \/ TimedEnd

SpecLife == InitSession /\ [][NextLife]_vars

(***************************************************************************)
(* The read-after-write specification: sessions are started from the idle  *)
(* provider and their units rated while the device clock advances, so that *)
(* a later session is built from the records the ratings wrote; no ticker  *)
(* fires and no write throws.                                              *)
(***************************************************************************)
ReadStart ==
  /\ calls = << >>
  /\ ~isActive
  /\ started < MaxReadSessions
  /\ \E dueAyahs \in getSessionAyahs(ayah_progress, clock, reviewLimit) :
       StartSession(dueAyahs, TRUE)

NextRead ==
  \/ Tick
  \/ ReadStart
  \/ SeqRate
  \/ TimedWrite
  \/ TimedFinish

SpecRead == InitSession /\ [][NextRead]_vars

(***************************************************************************)
(* The double-tap specification: a session is started from the idle        *)
(* provider and a grading button may be pressed again while an earlier     *)
(* rateAyah is still at one of its awaits; the SELECT and the UPDATE of    *)
(* updateAyahProgress are steps of their own.  The device clock stands     *)
(* still, no ticker fires and no write throws.                             *)
(***************************************************************************)
TapStart ==
  /\ calls = << >>
  /\ ~isActive
  /\ started < MaxTapSessions
  /\ \E dueAyahs \in getSessionAyahs(ayah_progress, clock, reviewLimit) :
       StartSession(dueAyahs, TRUE)

TapRate ==
  /\ Len(calls) < MaxTaps
  /\ Len(hist.rated) + Len(calls) < MaxTapCount
  /\ \E rating \in Ratings : RateBegin(rating)

TapRead == \E i \in 1 .. Len(calls) : RateRead(i)

TapUpdate == \E i \in 1 .. Len(calls) : RateUpdate(i)

NextTaps ==
  \/ TapStart
  \/ TapRate
  \/ TapRead
  \/ TapUpdate
  \/ TimedFinish

SpecTaps == InitSession /\ [][NextTaps]_vars

(***************************************************************************)
(* The retention specification: a session over single-ayah units, all new  *)
(* at its start, of which all but the last have been rated, with any       *)
(* tallies up to MaxTally; the last unit is rated, or the session is ended *)
(* from the exit dialog.                                                   *)
(***************************************************************************)
Tallies == [ again : 0 .. MaxTally, hard : 0 .. MaxTally,
             good : 0 .. MaxTally, easy : 0 .. MaxTally ]

Repeat(x, n) == [ i \in 1 .. n |-> x ]

\* the ratings given so far, those of one kind next to each other
RatingsOf(tally) ==
  Repeat(1, tally.again) \o Repeat(2, tally.hard) \o Repeat(3, tally.good)
    \o Repeat(4, tally.easy)

\* the store after addToLearningQueue with every group of the surah selected
QueuedAll(n) ==
  QueueSelected([ i \in 1 .. n |-> i ], createFixedGroups(n, 1, 1),
                [ progress |-> << >>, groups |-> createFixedGroups(n, 1, 1),
                  id |-> n + 1, threw |-> FALSE ])

\* the records after the first ayahs of list were rated as ratings says
RECURSIVE RatedRows(_, _, _, _)
RatedRows(table, list, ratings, i) ==
  IF i > Len(ratings) THEN table
  ELSE RatedRows(updateAyahProgress(table, list[i].id, ratings[i], 0, 0),
                 list, ratings, i + 1)

InitRetention ==
  \E tally \in Tallies :
    LET k == tally.again + tally.hard + tally.good + tally.easy
        store == QueuedAll(k + 1)
        units == UniqueGroupIds(store.progress, 1, {})
    IN  /\ FsIdle
        /\ ContentIdle
        /\ surahAyahCount = k + 1
        /\ groupsReturned = createFixedGroups(k + 1, 1, 1)
        /\ grp = NoGrp
        /\ clock = 0
        /\ failures = 0
        /\ reviewLimit = DefaultReviewLimit
        /\ ayah_groups = store.groups
        /\ ayah_progress = RatedRows(store.progress, store.progress, RatingsOf(tally), 1)
        /\ session_statistics =
             << [ id |-> store.id, totalReviewed |-> 0, newLearned |-> 0,
                  reviewTime |-> 0, ratings |-> ZeroRatings, retention |-> 0 ] >>
        /\ nextId = store.id + 1
        /\ isActive = TRUE
        /\ ayahs = store.progress
        /\ ayahIndex = k
        /\ currentAyah = store.progress[k + 1]
        /\ sessionStats = [ id |-> store.id, ratings |-> tally ]
        /\ uniqueGroups = units
        /\ uniqueGroupIndex = k
        /\ totalReviewed = k
        /\ newLearned = k
        /\ startTime = 0
        /\ elapsedTime = 0
        /\ ayahStartTime = 0
        /\ loading = FALSE
        /\ error = "none"
        /\ timer = 1
        /\ intervals = {1}
        /\ calls = << >>
        /\ started = 1
        /\ evt = NoEvt
        /\ hist = [ units |-> units, rated |-> SubSeq(units, 1, k), failed |-> FALSE,
                    newRated |-> k, how |-> "open", statsId |-> store.id ]

NextRetention ==
  \/ SeqRate
  \/ TimedWrite
  \/ TimedFinish
  \/ TimedEnd

SpecRetention == InitRetention /\ [][NextRetention]_vars

(***************************************************************************)
(* The due-set specification: the stores the queries of the due set work   *)
(* on.  The groups of the surah were committed by addToLearningQueue, by   *)
(* createAyahProgress or by both, each record was then reviewed or not,    *)
(* and the device clock advances.                                          *)
(***************************************************************************)
DueModes(group) ==
  IF group.endAyah > group.startAyah
  THEN {"queue", "single", "partial", "none"}
  ELSE {"queue", "single", "none"}

DuePlans ==
  { plan \in [ 1 .. Len(InitialGroups) -> {"queue", "single", "partial", "none"} ] :
      \A g \in 1 .. Len(InitialGroups) : plan[g] \in DueModes(InitialGroups[g]) }

\* the reviews a record has had: none; Again, Hard or Good when new; Again one
\* tick later; Good and then Again
DueHistories ==
  { << >>,
    << [ rating |-> 1, now |-> 0 ] >>,
    << [ rating |-> 1, now |-> 1 ] >>,
    << [ rating |-> 2, now |-> 0 ] >>,
    << [ rating |-> 3, now |-> 0 ] >>,
    << [ rating |-> 3, now |-> 0 ], [ rating |-> 1, now |-> 1 ] >> }

\* updateAyahProgress for the reviews of history from the i-th on
RECURSIVE Reviewed(_, _, _, _)
Reviewed(table, id, history, i) ==
  IF i > Len(history) THEN table
  ELSE Reviewed(updateAyahProgress(table, id, history[i].rating, 0, history[i].now),
                id, history, i + 1)

\* the table after the reviews of every record from the i-th on
RECURSIVE ReviewedAll(_, _, _)
ReviewedAll(table, histories, i) ==
  IF i > Len(table) THEN table
  ELSE ReviewedAll(Reviewed(table, table[i].id, histories[i], 1), histories, i + 1)

\* the time of the last review of all
LastReview(histories) ==
  IF \E i \in 1 .. Len(histories), j \in 1 .. 2 :
       j <= Len(histories[i]) /\ histories[i][j].now = 1
  THEN 1 ELSE 0

InitDue ==
  /\ FsIdle
  /\ SessionIdle
  /\ ContentIdle
  /\ surahAyahCount = SessionAyahCount
  /\ groupsReturned = InitialGroups
  /\ grp = NoGrp
  /\ failures = 0
  /\ \E plan \in DuePlans :
       LET rows == Populated(plan, 1, << >>)
       IN  /\ ayah_groups = PlannedGroups(plan, rows)
           /\ \E histories \in [ 1 .. Len(rows) -> DueHistories ] :
                /\ ayah_progress = ReviewedAll(rows, histories, 1)
                /\ clock = LastReview(histories)
  /\ nextId = Len(ayah_groups) + Len(ayah_progress) + 1
  /\ session_statistics = << >>
  /\ reviewLimit = DefaultReviewLimit

DueTick ==
  /\ clock < MaxDueClock
  /\ clock' = clock + 1
  /\ UNCHANGED <<fsrsVars, groupVars, nextId, failures, dbVars, sessVars, runVars,
                 ghostVars>>

SpecDue == InitDue /\ [][DueTick]_vars

(***************************************************************************)
(* The scheduling function on its own: a card and a rating are drawn, the  *)
(* function is applied once.                                               *)
(***************************************************************************)
CardInputs ==
  { initializeCard } \cup
  [ state : {"learning", "review", "relearning"},
    stability : {376, 400, 1500},
    difficulty : {600, 1000},
    lapses : {0, 1},
    lastReview : {0, 1},
    dueDate : {1, 3},
    interval : {0, 1, 4} ]

FsInit ==
  /\ fsCard \in CardInputs
  /\ fsRating \in Ratings
  /\ fsNow \in 1 .. MaxClock
  /\ fsOut = initializeCard
  /\ fsPc = "input"
  /\ fsTrail = << >>
  /\ fsIntervals = NoIntervals
  /\ SessionIdle
  /\ ContentIdle
  /\ surahAyahCount = 0
  /\ groupsReturned = << >>
  /\ grp = NoGrp
  /\ clock = 0
  /\ nextId = 1
  /\ failures = 0
  /\ ayah_groups = << >>
  /\ ayah_progress = << >>
  /\ session_statistics = << >>
  /\ reviewLimit = DefaultReviewLimit

FsSchedule ==
  /\ fsPc = "input"
  /\ fsOut' = scheduleReview(fsCard, fsRating, fsNow, DEFAULT_PARAMETERS)
  /\ fsPc' = "done"
  /\ UNCHANGED <<fsCard, fsRating, fsNow, fsTrail, fsIntervals, groupVars, envVars, dbVars, sessVars,
                 runVars, ghostVars>>

SpecFsrs == FsInit /\ [][FsSchedule]_vars

\* the same for cards whose stability is 0, last reviewed now or before
ZeroStabilityInputs ==
  [ state : {"learning", "review", "relearning"},
    stability : {0},
    difficulty : {600},
    lapses : {0, 1},
    lastReview : {0, MaxClock},
    dueDate : {1},
    interval : {0, 1} ]

InitZeroStability ==
  /\ fsCard \in ZeroStabilityInputs
  /\ fsRating \in Ratings
  /\ fsNow = MaxClock
  /\ fsOut = initializeCard
  /\ fsPc = "input"
  /\ fsTrail = << >>
  /\ fsIntervals = NoIntervals
  /\ SessionIdle
  /\ ContentIdle
  /\ surahAyahCount = 0
  /\ groupsReturned = << >>
  /\ grp = NoGrp
  /\ clock = 0
  /\ nextId = 1
  /\ failures = 0
  /\ ayah_groups = << >>
  /\ ayah_progress = << >>
  /\ session_statistics = << >>
  /\ reviewLimit = DefaultReviewLimit

SpecZeroStability == InitZeroStability /\ [][FsSchedule]_vars

(***************************************************************************)
(* The review specification: one card, new at day 0, reviewed with any     *)
(* ratings while time passes.                                              *)
(***************************************************************************)
InitReviews ==
  /\ fsCard = initializeCard
  /\ fsRating = 1
  /\ fsNow = 0
  /\ fsOut = initializeCard
  /\ fsPc = "input"
  /\ fsTrail = << >>
  /\ fsIntervals = NoIntervals
  /\ SessionIdle
  /\ ContentIdle
  /\ surahAyahCount = 0
  /\ groupsReturned = << >>
  /\ grp = NoGrp
  /\ clock = 0
  /\ nextId = 1
  /\ failures = 0
  /\ ayah_groups = << >>
  /\ ayah_progress = << >>
  /\ session_statistics = << >>
  /\ reviewLimit = DefaultReviewLimit

\* a seeded fault: Easy on a relearning card is scheduled as Good is
FsReviewEasyAsGood ==
  /\ Len(fsTrail) < MaxReviews
  /\ \E rating \in Ratings :
       LET call == Scheduled(fsOut,
                             IF rating = 4 /\ fsOut.state = "relearning" THEN 3 ELSE rating,
                             fsNow, DEFAULT_PARAMETERS)
       IN  /\ fsCard' = call.card
           /\ fsRating' = rating
           /\ fsOut' = call.result
           /\ fsTrail' = Append(fsTrail, [ rating |-> rating, now |-> fsNow ])
  /\ fsPc' = "done"
  /\ UNCHANGED <<fsNow, fsIntervals, groupVars, envVars, dbVars, sessVars, runVars,
                 ghostVars>>

\* a seeded fault: a lapse is counted only for a card in review
FsReviewLapseInReview ==
  /\ Len(fsTrail) < MaxReviews
  /\ \E rating \in Ratings :
       LET call == Scheduled(fsOut, rating, fsNow, DEFAULT_PARAMETERS)
       IN  /\ fsCard' = call.card
           /\ fsRating' = rating
           /\ fsOut' = IF fsOut.state = "relearning"
                       THEN [ call.result EXCEPT !.lapses = fsOut.lapses ]
                       ELSE call.result
           /\ fsTrail' = Append(fsTrail, [ rating |-> rating, now |-> fsNow ])
  /\ fsPc' = "done"
  /\ UNCHANGED <<fsNow, fsIntervals, groupVars, envVars, dbVars, sessVars, runVars,
                 ghostVars>>

\* scheduleReview(card, rating, now) on the card as the last review left it
FsReview ==
  /\ Len(fsTrail) < MaxReviews
  /\ \E rating \in Ratings :
       LET call == Scheduled(fsOut, rating, fsNow, DEFAULT_PARAMETERS)
       IN  /\ fsCard' = call.card
           /\ fsRating' = rating
           /\ fsOut' = call.result
           /\ fsTrail' = Append(fsTrail, [ rating |-> rating, now |-> fsNow ])
  /\ fsPc' = "done"
  /\ UNCHANGED <<fsNow, fsIntervals, groupVars, envVars, dbVars, sessVars, runVars,
                 ghostVars>>

FsWait ==
  /\ fsNow < MaxReviewDays * Day
  /\ fsNow' = fsNow + 1
  /\ UNCHANGED <<fsCard, fsRating, fsOut, fsPc, fsTrail, fsIntervals, groupVars, envVars,
                 dbVars, sessVars, runVars, ghostVars>>

NextReviews == FsReview \/ FsWait

SpecReviews == InitReviews /\ [][NextReviews]_vars

\* loadAyahContent: calculateOptimalIntervals(card) for the card as the last
\* review left it; fsCard is the card object after the call
FsIntervals ==
  /\ fsPc # "intervals"
  /\ LET call == calculateOptimalIntervals(fsOut, fsNow, DEFAULT_PARAMETERS)
     IN  /\ fsCard' = call.card
         /\ fsIntervals' = call.result
  /\ fsPc' = "intervals"
  /\ UNCHANGED <<fsRating, fsNow, fsOut, fsTrail, groupVars, envVars, dbVars, sessVars,
                 runVars, ghostVars>>

IvReview == Len(fsTrail) < MaxIntervalReviews /\ FsReview

IvWait == fsNow < MaxIntervalDays * Day /\ FsWait

NextIntervals == IvReview \/ IvWait \/ FsIntervals

\* the card reviewed while time passes, its intervals asked for at any moment
SpecIntervals == InitReviews /\ [][NextIntervals]_vars

(***************************************************************************)
(* The grouping specification: a surah of any length up to MaxAyahCount,   *)
(* createGroupsForSurah called for fixed groups with any size, one call    *)
(* after the other.                                                        *)
(***************************************************************************)
GroupingSizes == (0 - 1) .. MaxGroupingSize

InitGroups ==
  /\ FsIdle
  /\ SessionIdle
  /\ ContentIdle
  /\ surahAyahCount \in 1 .. MaxAyahCount
  /\ groupsReturned = << >>
  /\ grp = NoGrp
  /\ clock = 0
  /\ nextId = 1
  /\ failures = 0
  /\ ayah_groups = << >>
  /\ ayah_progress = << >>
  /\ session_statistics = << >>
  /\ reviewLimit = DefaultReviewLimit

GroupsCall ==
  /\ grp.n < MaxGroupCalls
  /\ \E groupingSize \in GroupingSizes : CreateGroupsForSurah(groupingSize)

SpecGroups == InitGroups /\ [][GroupsCall]_vars

(***************************************************************************)
(* The structural specification: a surah of up to MaxStructAyahs ayahs     *)
(* whose rukus and pages the API knows, the content provider fetching and  *)
(* caching, the script setting changing, and createGroupsForSurah called   *)
(* for ruku and page groups.  An AsyncStorage entry lives for 7 days       *)
(* (CACHE_EXPIRATION), longer than the time the model covers, so no entry  *)
(* expires.                                                                *)
(***************************************************************************)
\* the ruku numbers of the ayahs of a surah: they grow with the ayah number,
\* by steps of one; in InitStruct the surah is on one page or its pages are
\* its rukus
BoundarySeqs(n) ==
  { f \in [ 1 .. n -> 1 .. MaxBoundaries ] :
      /\ f[1] = 1
      /\ \A i \in 1 .. n - 1 : f[i + 1] \in { f[i], f[i] + 1 } }

InitStruct ==
  /\ FsIdle
  /\ SessionIdle
  /\ surahAyahCount \in 1 .. MaxStructAyahs
  /\ \E r \in BoundarySeqs(surahAyahCount) :
       \E p \in { r, [ i \in 1 .. surahAyahCount |-> 1 ] } :
         apiAyahs = [ i \in 1 .. surahAyahCount |-> [ ruku |-> r[i], page |-> p[i] ] ]
  /\ quran_ayahs = {}
  /\ quran_surahs = [ rukus |-> << >>, pages |-> << >> ]
  /\ ayahsCache = {}
  /\ quranScript = "uthmani"
  /\ structCall = NoStruct
  /\ queued = NoQueued
  /\ groupsReturned = << >>
  /\ grp = NoGrp
  /\ clock = 0
  /\ nextId = 1
  /\ failures = 0
  /\ ayah_groups = << >>
  /\ ayah_progress = << >>
  /\ session_statistics = << >>
  /\ reviewLimit = DefaultReviewLimit

StructCall ==
  /\ structCall.n < MaxStructCalls
  /\ \E groupingMethod \in Methods,
        stale \in IF quran_surahs.rukus = << >> THEN {FALSE} ELSE BOOLEAN :
       CreateGroupsForSurahBy(groupingMethod, stale)

StructFetch == \E api \in ApiOutcomes : FetchAyahs(api)

StructScript == \E script \in Scripts : SetQuranScript(script)

NextStruct ==
  \/ StructCall
  \/ StructFetch
  \/ StructScript
  \/ CheckAndUpdateSurahData

SpecStruct == InitStruct /\ [][NextStruct]_vars

(***************************************************************************)
(* The commit specification: the surah screen, where the learner changes   *)
(* the size of the fixed groups and adds selected groups to the learning   *)
(* queue.                                                                  *)
(***************************************************************************)
InitCommit ==
  /\ FsIdle
  /\ SessionIdle
  /\ ContentIdle
  /\ surahAyahCount \in 1 .. MaxCommitAyahs
  /\ groupsReturned = << >>
  /\ grp = NoGrp
  /\ clock = 0
  /\ nextId = 1
  /\ failures = 0
  /\ ayah_groups = << >>
  /\ ayah_progress = << >>
  /\ session_statistics = << >>
  /\ reviewLimit = DefaultReviewLimit

\* the selections of the screen: distinct groups, in the order of selection
Selections(groups) ==
  { sel \in UNION { [ 1 .. k -> 1 .. Len(groups) ] : k \in 1 .. MaxSelected } :
      \A i, j \in 1 .. Len(sel) : i # j => sel[i] # sel[j] }

CommitRegroup ==
  /\ grp.n < MaxCommitCalls
  /\ \E groupingSize \in 1 .. MaxCommitSize : CreateGroupsForSurah(groupingSize)

CommitQueue ==
  /\ queued.n < MaxCommits
  /\ \E selectedGroups \in Selections(groupsReturned) :
       AddToLearningQueue(selectedGroups)

NextCommit == CommitRegroup \/ CommitQueue

SpecCommit == InitCommit /\ [][NextCommit]_vars

(***************************************************************************)
(* Properties.                                                             *)
(***************************************************************************)
RowOf(table, id) == table[RowIndex(table, id)]

CardOf(r) ==
  [ state |-> r.state, stability |-> r.stability, difficulty |-> r.difficulty,
    lapses |-> r.lapses, interval |-> r.interval, lastReviewed |-> r.lastReviewed,
    nextReview |-> r.nextReview ]

\* a rating event on a unit of several items, all in the same card state before
GroupEvent ==
  /\ evt.phase = "rated"
  /\ Len(evt.targets) >= 2
  /\ \A a, b \in Range(evt.targets) :
       CardOf(RowOf(evt.before, a)) = CardOf(RowOf(evt.before, b))

\* C1: one rating of a unit of several items tested as a group, all in the
\* same card state before, updates exactly the records of those items; the
\* updated records carry the same lastReviewed, the same interval and the same
\* nextReview; and totalReviewed has grown by exactly 1.
GroupAtomicity ==
  GroupEvent =>
    /\ \A i \in 1 .. Len(ayah_progress) :
         (ayah_progress[i] # evt.before[i])
           <=> (ayah_progress[i].id \in Range(evt.targets))
    /\ \A a, b \in Range(evt.targets) :
         /\ RowOf(ayah_progress, a).lastReviewed = RowOf(ayah_progress, b).lastReviewed
         /\ RowOf(ayah_progress, a).interval = RowOf(ayah_progress, b).interval
         /\ RowOf(ayah_progress, a).nextReview = RowOf(ayah_progress, b).nextReview
    /\ totalReviewed = evt.env.totalReviewed + 1

\* C2: for every rating, scheduleReview applied to a card whose state is new
\* returns a state that is learning or review, and an interval >= 0.
NewCardLeavesNew ==
  (fsPc = "done" /\ fsCard.state = "new") =>
    /\ fsOut.state \in {"learning", "review"}
    /\ fsOut.interval >= 0

IsPrefix(a, b) == Len(a) <= Len(b) /\ SubSeq(b, 1, Len(a)) = a

\* C3: in a session in which no write has thrown, the units rated so far are
\* the first units of the session's unit list, in list order, each once; while
\* the session is open the current unit is the first unit not yet rated; and a
\* session that has ended by itself has had every one of its units rated.
SessionExhaustion ==
  ~hist.failed =>
    /\ hist.how = "exhausted" => hist.rated = hist.units
    /\ hist.how = "open" =>
         /\ IsPrefix(hist.rated, hist.units)
         /\ Len(hist.rated) < Len(hist.units)
         /\ calls = << >> => UnitKey(currentAyah) = hist.units[Len(hist.rated) + 1]

Sum(ratings) == ratings.again + ratings.hard + ratings.good + ratings.easy

Tally(ratings, rating) ==
  CASE rating = 1 -> ratings.again
    [] rating = 2 -> ratings.hard
    [] rating = 3 -> ratings.good
    [] rating = 4 -> ratings.easy

TalliesAgree ==
  /\ sessionStats.id # Null => totalReviewed = Sum(sessionStats.ratings)
  /\ \A i \in 1 .. Len(session_statistics) :
       session_statistics[i].totalReviewed = Sum(session_statistics[i].ratings)

\* a rateAyah invocation completes without a throw
SuccessfulRating ==
  /\ calls # << >>
  /\ Head(calls).todo = << >>
  /\ calls' = << >>
  /\ failures' = failures

\* the tallies after the step: those in memory, or those persisted at the end
TalliesAfter ==
  IF sessionStats'.id # Null THEN sessionStats'.ratings
  ELSE RowOf(session_statistics', sessionStats.id).ratings

CountsOnce ==
  /\ totalReviewed' = totalReviewed + 1
  /\ \A k \in Ratings :
       Tally(TalliesAfter, k) =
         Tally(sessionStats.ratings, k) + (IF k = Head(calls).rating THEN 1 ELSE 0)

\* C4: every successful rating adds exactly 1 to totalReviewed and exactly 1 to
\* the tally of the given rating and nothing to the other tallies, whatever the
\* number of items of the unit; totalReviewed is the sum of the four tallies in
\* every state of a session and in every persisted statistics row.
RatingCounts == []TalliesAgree /\ [][SuccessfulRating => CountsOnce]_vars

RatingCountsWitness ==
  /\ evt.phase = "rated"
  /\ Len(evt.targets) >= 2
  /\ evt.ended
  /\ \E i \in 1 .. Len(session_statistics) : session_statistics[i].totalReviewed = 2

\* C5: when a session has ended, by exhaustion or by endSession, the newLearned
\* of its persisted statistics is the number of its rating events whose unit
\* was new before the rating.
NewLearnedPersisted ==
  (hist.how \in {"exhausted", "explicit"}) =>
    RowOf(session_statistics, hist.statsId).newLearned = hist.newRated

\* the write of a member throws
FailedWrite ==
  /\ calls # << >>
  /\ Head(calls).todo # << >>
  /\ failures' = failures + 1

\* C6: when the write of a member of the current unit throws, the ayah index,
\* the unit index, the current ayah, totalReviewed, newLearned and the tallies
\* are unchanged, and the session is as active as before.
FailedWriteKeepsSession ==
  [][FailedWrite => UNCHANGED <<ayahIndex, uniqueGroupIndex, currentAyah,
                                totalReviewed, newLearned, sessionStats,
                                isActive>>]_vars

FailedWriteWitness ==
  /\ evt.phase = "failed"
  /\ evt.written >= 1
  /\ isActive
  /\ UnitKey(currentAyah) = evt.unit
  /\ Len(hist.units) >= 2

\* C7: when the write of a later member of a unit has thrown after earlier
\* members were written, and rateAyah is invoked again with the same rating
\* and completes, every member of the unit has exactly one history entry more
\* than before the first attempt and at most one lapse more.
RetryIdempotent ==
  (evt.phase = "rated" /\ evt.isRetry) =>
    \A id \in Range(evt.targets) :
      /\ Len(RowOf(ayah_progress, id).history)
           = Len(RowOf(evt.retryBase, id).history) + 1
      /\ RowOf(ayah_progress, id).lapses <= RowOf(evt.retryBase, id).lapses + 1

Ranges(groups) ==
  [ i \in 1 .. Len(groups) |-> << groups[i].startAyah, groups[i].endAyah >> ]

Ids(groups) == [ i \in 1 .. Len(groups) |-> groups[i].id ]

StoredFixed == SelectSeq(ayah_groups, IsFixed)

\* createGroupsForSurah has been called twice in a row with size 5
TwiceWithFive == grp.n >= 2 /\ grp.size = 5 /\ grp.prevSize = 5

\* C8: when createGroupsForSurah(surah, 'fixed', 5) is called twice in a row
\* on a surah of at least one ayah, the second call returns the groups the
\* first returned (same ids, same ranges), every group stored before the
\* second call is still stored after it, and no two stored groups have the
\* same range.
FixedIdempotent ==
  TwiceWithFive =>
    /\ Ids(groupsReturned) = Ids(grp.prevReturned)
    /\ Ranges(groupsReturned) = Ranges(grp.prevReturned)
    /\ \A i \in 1 .. Len(grp.before) : grp.before[i] \in Range(ayah_groups)
    /\ \A i, j \in 1 .. Len(ayah_groups) :
         i # j => Ranges(ayah_groups)[i] # Ranges(ayah_groups)[j]

\* the runs of size items that cover 1 .. count, the last one possibly shorter
ExpectedRuns(count, size) ==
  [ k \in 1 .. ((count + size - 1) \div size) |->
      << (k - 1) * size + 1, Min(k * size, count) >> ]

\* a request with a size different from the size requested before
SizeChanged ==
  /\ grp.n >= 2
  /\ grp.size >= 1
  /\ grp.prevSize >= 1
  /\ grp.size # grp.prevSize

NoneSurvives == \A i \in 1 .. Len(grp.before) : grp.before[i] \notin Range(ayah_groups)

StoredIsPartition ==
  /\ Ranges(StoredFixed) = ExpectedRuns(surahAyahCount, grp.size)
  /\ Ranges(groupsReturned) = ExpectedRuns(surahAyahCount, grp.size)

TwelveByFive ==
  (grp.n >= 1 /\ surahAyahCount = 12 /\ grp.size = 5) =>
    Ranges(groupsReturned) = << <<1, 5>>, <<6, 10>>, <<11, 12>> >>

TwelveByFiveThenFour ==
  (grp.n >= 2 /\ surahAyahCount = 12 /\ grp.prevSize = 5 /\ grp.size = 4) =>
    /\ NoneSurvives
    /\ Ranges(groupsReturned) = << <<1, 4>>, <<5, 8>>, <<9, 12>> >>
    /\ Ranges(StoredFixed) = << <<1, 4>>, <<5, 8>>, <<9, 12>> >>

\* C9: when fixed groups are stored and a fixed request arrives with
\* a different size, every group stored before is deleted and the stored and
\* the returned groups are the partition for the new size; 12 ayahs with size
\* 5 give [1-5],[6-10],[11-12] and then size 4 gives [1-4],[5-8],[9-12].
SizeChangeRegenerates ==
  /\ SizeChanged => (NoneSurvives /\ StoredIsPartition)
  /\ TwelveByFive
  /\ TwelveByFiveThenFour

\* sorted by start, from 1 to count, without gap or overlap, every run but
\* the last of exactly size items
PartitionBy(runs, count, size) ==
  /\ Len(runs) >= 1
  /\ runs[1][1] = 1
  /\ runs[Len(runs)][2] = count
  /\ \A i \in 1 .. Len(runs) : runs[i][1] <= runs[i][2]
  /\ \A i \in 1 .. Len(runs) - 1 :
       /\ runs[i][1] < runs[i + 1][1]
       /\ runs[i + 1][1] = runs[i][2] + 1
       /\ runs[i][2] - runs[i][1] + 1 = size
  /\ runs[Len(runs)][2] - runs[Len(runs)][1] + 1 <= size

\* C10 as stated: the groups the fixed strategy generates partition
\* 1 .. ayahCount into runs of the requested size, a size below 1 counting as 1.
FixedPartitionClamped ==
  (grp.n >= 1 /\ grp.generated) =>
    PartitionBy(Ranges(groupsReturned), surahAyahCount,
                IF grp.size < 1 THEN 1 ELSE grp.size)

\* C10 amended: the groups the fixed strategy generates partition
\* 1 .. ayahCount into runs of the requested size, a size of 0 counting as 5
\* and any other size below 1 as 1.
FixedPartitionDefaulted ==
  (grp.n >= 1 /\ grp.generated) =>
    PartitionBy(Ranges(groupsReturned), surahAyahCount,
                IF grp.size = 0 THEN 5 ELSE IF grp.size < 1 THEN 1 ELSE grp.size)

FixedPartitionWitness ==
  /\ grp.n >= 1
  /\ grp.generated
  /\ grp.size = 0
  /\ surahAyahCount = 7
  /\ Ranges(groupsReturned) = << <<1, 5>>, <<6, 7>> >>

\* C11: a call of createGroupsForSurah for a structural method that follows a
\* call for the same method, which returned groups, generates and deletes
\* nothing and returns the groups of that call, with their ids.
StructIdempotent ==
  ( /\ structCall.n >= 2
    /\ structCall.prevMethod = structCall.method
    /\ structCall.prevReturned # << >> ) =>
      /\ ~structCall.generated
      /\ Range(groupsReturned) = Range(structCall.prevReturned)
      /\ ayah_groups = structCall.before

\* after the call the store has no boundary numbers for the method, or no
\* ayahs of the surah
Unavailable ==
  \/ SurahField(quran_surahs, structCall.method) = << >>
  \/ quran_ayahs = {}

\* C12: a call of createGroupsForSurah for a structural method that leaves the
\* store without boundary data (the API failed, or gave no rukus and pages,
\* or no ayah is stored) returns the runs of 5 of 1 .. ayahCount, and these
\* are the fixed groups stored.
FallbackIsFixedFive ==
  (structCall.n >= 1 /\ Unavailable) =>
    /\ Ranges(groupsReturned) = ExpectedRuns(surahAyahCount, 5)
    /\ Ranges(StoredFixed) = ExpectedRuns(surahAyahCount, 5)
    /\ Range(groupsReturned) \subseteq Range(ayah_groups)

FallbackWitness ==
  /\ structCall.n >= 1
  /\ structCall.method = "ruku"
  /\ quran_ayahs = {}
  /\ surahAyahCount = 6
  /\ Ranges(groupsReturned) = << <<1, 5>>, <<6, 6>> >>

\* sorted by start, from 1 to count, without gap or overlap
IsPartition(runs, count) ==
  /\ Len(runs) >= 1
  /\ runs[1][1] = 1
  /\ runs[Len(runs)][2] = count
  /\ \A i \in 1 .. Len(runs) : runs[i][1] <= runs[i][2]
  /\ \A i \in 1 .. Len(runs) - 1 : runs[i + 1][1] = runs[i][2] + 1

\* C13: the groups a call of createGroupsForSurah generates for a structural
\* method, when the store has boundary numbers and ayahs for the surah,
\* partition 1 .. ayahCount.
BoundaryPartition ==
  (structCall.n >= 1 /\ structCall.generated /\ ~Unavailable) =>
    IsPartition(Ranges(groupsReturned), surahAyahCount)

\* the records of a group as addToLearningQueue is to leave them
GroupCommitted(group) ==
  \A ayahNumber \in group.startAyah .. group.endAyah :
    \E i \in 1 .. Len(ayah_progress) :
      /\ ayah_progress[i].ayahNumber = ayahNumber
      /\ ayah_progress[i].groupId = group.id
      /\ ayah_progress[i].groupPosition = ayahNumber - group.startAyah + 1
      /\ ayah_progress[i].state = "new"
      /\ ayah_progress[i].nextReview = Null

OneRecordPerAyah ==
  \A i, j \in 1 .. Len(ayah_progress) :
    ayah_progress[i].ayahNumber = ayah_progress[j].ayahNumber => i = j

\* C14: after addToLearningQueue for selected groups, every ayah of every
\* selected group has exactly one record, which carries the group's id, the
\* position ayahNumber - startAyah + 1, the state new and no nextReview; and
\* no ayah has two records
CommitLifecycle ==
  /\ OneRecordPerAyah
  /\ queued.n > 0 =>
       \A k \in 1 .. Len(queued.groups) : GroupCommitted(queued.groups[k])

\* C15: a startSession invoked during a session, paused or not, leaves the due
\* list, the indices, the statistics record and the elapsed time of that
\* session as they are
StartOnlyFromIdle ==
  [][(isActive /\ started' = started + 1) =>
       UNCHANGED <<ayahs, ayahIndex, uniqueGroupIndex, sessionStats,
                   session_statistics, elapsedTime>>]_vars

\* startSession has found nothing due
EmptyStart ==
  /\ error' = "No ayahs due for review"
  /\ error # "No ayahs due for review"

\* C16: a startSession that finds nothing due sets the error and changes
\* nothing else: no statistics row is created, no ticker started, the session
\* state is as before, and from Idle there is no active session and no
\* current ayah afterwards
EmptyStartChangesNothing ==
  [][EmptyStart =>
       /\ UNCHANGED <<dbVars, nextId, intervals, isActive, ayahs, ayahIndex,
                      currentAyah, sessionStats, uniqueGroups, uniqueGroupIndex,
                      totalReviewed, newLearned, startTime, elapsedTime,
                      ayahStartTime, timer>>
       /\ ~isActive => ~isActive' /\ currentAyah' = NoAyah]_vars

EmptyStartWitness ==
  /\ error = "No ayahs due for review"
  /\ ~isActive
  /\ hist.how = "exhausted"

\* C17: while an invocation of rateAyah made in a paused session is in flight,
\* no record, no statistics counter and no index changes
RateOnlyWhenActive ==
  [][(calls # << >> /\ Head(calls).env.timer = Null) =>
       UNCHANGED <<ayah_progress, sessionStats, totalReviewed, ayahIndex,
                   uniqueGroupIndex>>]_vars

\* endSession() is invoked during a session, paused or not
ExplicitEnd ==
  /\ isActive
  /\ calls = << >>
  /\ ~isActive'

\* C18: endSession() during a session, paused or not, after k ratings writes
\* totalReviewed = k, the tallies of the session and their retention to the
\* session's statistics row, and leaves no active session, an empty list, no
\* current ayah, both indices at -1 and no live ticker
EndPersistsAndClears ==
  [][ExplicitEnd =>
       /\ LET row == RowOf(session_statistics', sessionStats.id)
          IN  /\ row.totalReviewed = Len(hist.rated)
              /\ row.ratings = sessionStats.ratings
              /\ row.retention = calculateRetention(sessionStats.ratings)
       /\ ayahs' = << >>
       /\ currentAyah' = NoAyah
       /\ ayahIndex' = 0 - 1
       /\ uniqueGroupIndex' = 0 - 1
       /\ timer' = Null
       /\ intervals' = {}]_vars

\* the tally of the spec's example
ExampleTally == [ again |-> 1, hard |-> 1, good |-> 2, easy |-> 1 ]

\* retention is passed / total * 100, cut at a thousandth of a percent
RetentionOf(row) ==
  LET total == Sum(row.ratings)
      passed == row.ratings.hard + row.ratings.good + row.ratings.easy
  IN  /\ total = 0 => row.retention = 0
      /\ total > 0 =>
           /\ row.retention * total <= passed * 100 * Milli
           /\ passed * 100 * Milli < (row.retention + 1) * total
      /\ row.ratings = ExampleTally => row.retention = 80 * Milli

\* C20: the statistics row of a session that has ended, by exhaustion or by
\* endSession, carries the retention (hard + good + easy) / total * 100 of
\* the tallies it carries, 0 when they are all 0, and 80 for the tallies
\* 1, 1, 2, 1
RetentionFinalized ==
  (hist.how \in {"exhausted", "explicit"}) =>
    RetentionOf(RowOf(session_statistics, hist.statsId))

RetentionWitness ==
  /\ hist.how = "exhausted"
  /\ RowOf(session_statistics, hist.statsId).ratings = ExampleTally
  /\ RowOf(session_statistics, hist.statsId).retention = 80 * Milli

\* the card was rated Again at day 0
AgainFirst ==
  /\ Len(fsTrail) >= 1
  /\ fsTrail[1] = [ rating |-> 1, now |-> 0 ]

\* C19: a new card rated Again at day 0 is learning with interval 0 and due at
\* once; rated Good next it is in review with interval 1, due a day later;
\* rated Good again one day after that its interval is greater than 1
AgainGoodGood ==
  /\ (AgainFirst /\ Len(fsTrail) = 1) =>
       /\ fsOut.state = "learning"
       /\ fsOut.interval = 0
       /\ fsOut.dueDate = 0
  /\ (AgainFirst /\ Len(fsTrail) = 2 /\ fsTrail[2].rating = 3) =>
       /\ fsOut.state = "review"
       /\ fsOut.interval = 1
       /\ fsOut.dueDate = fsTrail[2].now + Day
  /\ (AgainFirst /\ Len(fsTrail) = 3 /\ fsTrail[2].rating = 3
        /\ fsTrail[3] = [ rating |-> 3, now |-> fsTrail[2].now + Day ]) =>
       fsOut.interval > 1

\* C21: a card whose state is new is due at every time, whatever its dueDate
NewAlwaysDue == fsOut.state = "new" => isDue(fsOut, fsNow)

\* a new card with a dueDate that lies ahead: it was rated Hard
NewAlwaysDueWitness ==
  /\ fsOut.state = "new"
  /\ fsOut.dueDate # Null
  /\ fsOut.dueDate > fsNow

\* the limits getDueAyahs is called with; 0 is also what no limit looks like
DueLimits == 0 .. SessionAyahCount

\* nextReview ascending, NULL first
NullFirst(a, b) == a = Null \/ (b # Null /\ a <= b)

DueOrdered(due) ==
  \A i, j \in 1 .. Len(due) :
    i < j =>
      \/ StatePriority(due[i].state) < StatePriority(due[j].state)
      \/ /\ StatePriority(due[i].state) = StatePriority(due[j].state)
         /\ NullFirst(due[i].nextReview, due[j].nextReview)

\* the positions in due of the members of the unit
DuePositions(due, key) == { i \in 1 .. Len(due) : UnitKey(due[i]) = key }

\* every unit has a member in due, and the units stand in the order of their
\* first members in due
UnitsInDueOrder(due, units) ==
  /\ \A u \in 1 .. Len(units) : DuePositions(due, units[u]) # {}
  /\ \A u, v \in 1 .. Len(units) :
       (u < v /\ DuePositions(due, units[u]) # {} /\ DuePositions(due, units[v]) # {}) =>
         SetMin(DuePositions(due, units[u])) < SetMin(DuePositions(due, units[v]))

\* C22: the due records come ordered by state priority and then by nextReview
\* with NULL first, and the units of the session list stand in the order in
\* which their first due member stands in that ordering
DueOrdering ==
  \A due \in getDueAyahs(ayah_progress, clock, 0) :
    /\ DueOrdered(due)
    /\ \A list \in SessionLoop(ayah_progress, due, 1, {}) :
         UnitsInDueOrder(due, UniqueGroupIds(list, 1, {}))

\* C23: for every limit L from 0 on at most L due records are selected, the
\* first L of the ordering, and the session list has at most L units
RecordTruncation ==
  \A limit \in DueLimits :
    \A due \in getDueAyahs(ayah_progress, clock, limit) :
      /\ Len(due) <= limit
      /\ \E all \in getDueAyahs(ayah_progress, clock, 0) :
           due = SubSeq(all, 1, Min(limit, Len(all)))
      /\ \A list \in SessionLoop(ayah_progress, due, 1, {}) :
           Len(UniqueGroupIds(list, 1, {})) <= limit

\* the rows of a group in the list, in list order
MembersIn(list, groupId) == SelectSeq(list, LAMBDA a : a.groupId = groupId)

\* C24: for every selected due record tested with its group the session list
\* holds every record of the group, in the order of groupPosition, and no
\* record is in the list twice
ListMaterialized ==
  \A limit \in DueLimits :
    \A due \in getDueAyahs(ayah_progress, clock, limit) :
      \A list \in SessionLoop(ayah_progress, due, 1, {}) :
        /\ \A i \in 1 .. Len(due) :
             due[i].testWithGroup =>
               /\ \A r \in Range(ayah_progress) :
                    r.groupId = due[i].groupId => r \in Range(list)
               /\ \A m, n \in 1 .. Len(MembersIn(list, due[i].groupId)) :
                    m < n => MembersIn(list, due[i].groupId)[m].groupPosition
                               <= MembersIn(list, due[i].groupId)[n].groupPosition
        /\ \A m, n \in 1 .. Len(list) : list[m].id = list[n].id => m = n

\* the due units, and those with a due member in one of the states
DueUnits == { UnitKey(r) : r \in DueRows(ayah_progress, clock) }

UnitsWith(states) ==
  { UnitKey(r) : r \in { x \in DueRows(ayah_progress, clock) : x.state \in states } }

LastEntry(r) == r.history[Len(r.history)]

\* the records a due-set query at the present time selects hold their last
\* review: those rated Again, none rated otherwise less than a day ago
DueAfterReview ==
  \A r \in Range(ayah_progress) :
    r.history # << >> =>
      /\ r.lastReviewed = LastEntry(r).date
      /\ LastEntry(r).rating = 1 => r \in DueRows(ayah_progress, clock)
      /\ LastEntry(r).rating # 1 /\ clock < LastEntry(r).date + Day
           => r \notin DueRows(ayah_progress, clock)

\* C26: after a unit was rated, every due-set query sees the updated records
\* of its members: after Again every member is due at every later time, after
\* Hard, Good or Easy no member is due earlier than a day after the rating
ReadYourWrites ==
  /\ DueAfterReview
  /\ evt.phase = "rated" =>
       \A k \in 1 .. Len(evt.targets) :
         LET r == RowOf(ayah_progress, evt.targets[k])
         IN  /\ r.history # << >>
             /\ LastEntry(r).rating = evt.rating
             /\ \A due \in getDueAyahs(ayah_progress, clock, 0) :
                  /\ evt.rating = 1 => r \in Range(due)
                  /\ evt.rating # 1 /\ clock < r.lastReviewed + Day
                       => r \notin Range(due)

\* a group of two rated Again and one rated Good, seen a tick later
ReadYourWritesWitness ==
  /\ evt.phase = "rated"
  /\ evt.rating = 1
  /\ Len(evt.targets) = 2
  /\ \A k \in 1 .. 2 : RowOf(ayah_progress, evt.targets[k]).lastReviewed < clock
  /\ \E r \in Range(ayah_progress) :
       /\ r.history # << >>
       /\ LastEntry(r).rating = 3
       /\ r.lastReviewed < clock

AgainTransition ==
  [][ Len(fsTrail') > Len(fsTrail) =>
        /\ fsRating' = 1 =>
             /\ fsOut.state \in {"new", "learning"} =>
                  fsOut'.state = "learning" /\ fsOut'.lapses = fsOut.lapses
             /\ fsOut.state \in {"review", "relearning"} =>
                  fsOut'.state = "relearning" /\ fsOut'.lapses = fsOut.lapses + 1
             /\ fsOut'.interval = 0
             /\ fsOut'.dueDate = fsNow
        /\ fsRating' # 1 => fsOut'.lapses = fsOut.lapses
        /\ fsOut'.lapses >= fsOut.lapses
    ]_vars

\* a card that lapsed in review and again in relearning
AgainTransitionWitness ==
  /\ Len(fsTrail) = 3
  /\ fsTrail[2].rating = 1
  /\ fsTrail[3].rating = 1
  /\ fsCard.state = "relearning"
  /\ fsOut.state = "relearning"
  /\ fsOut.lapses = 2

\* the stability scheduleReview starts from: w[0] for a new card
StartStability(card) ==
  IF card.state = "new" THEN DEFAULT_PARAMETERS.w[1] ELSE card.stability

\* C29: Hard on a new or learning card gives a learning card, Hard on a
\* relearning card a review card; the interval is 1 day, the card is due a
\* day from now and its stability is not decayed
HardOutsideReview ==
  [][ (/\ Len(fsTrail') > Len(fsTrail)
       /\ fsRating' = 2
       /\ fsOut.state \in {"new", "learning", "relearning"}) =>
        /\ fsOut.state \in {"new", "learning"} => fsOut'.state = "learning"
        /\ fsOut.state = "relearning" => fsOut'.state = "review"
        /\ fsOut'.interval = 1
        /\ fsOut'.dueDate = fsNow + Day
        /\ fsOut'.stability = StartStability(fsOut)
    ]_vars

\* the same for learning and relearning cards only
HardOnLearning ==
  [][ (/\ Len(fsTrail') > Len(fsTrail)
       /\ fsRating' = 2
       /\ fsOut.state \in {"learning", "relearning"}) =>
        /\ fsOut.state = "learning" => fsOut'.state = "learning"
        /\ fsOut.state = "relearning" => fsOut'.state = "review"
        /\ fsOut'.interval = 1
        /\ fsOut'.dueDate = fsNow + Day
        /\ fsOut'.stability = fsOut.stability
    ]_vars

\* C30: Good on a new or learning card gives a review card with an interval
\* of 1 day, Easy on a new, learning or relearning card a review card with an
\* interval of 4 days, Good on a relearning card a review card whose interval
\* is the one of its updated stability
Graduation ==
  [][ Len(fsTrail') > Len(fsTrail) =>
        /\ (fsRating' = 3 /\ fsOut.state \in {"new", "learning"}) =>
             /\ fsOut'.state = "review"
             /\ fsOut'.interval = 1
             /\ fsOut'.dueDate = fsNow + Day
        /\ (fsRating' = 4 /\ fsOut.state \in {"new", "learning", "relearning"}) =>
             /\ fsOut'.state = "review"
             /\ fsOut'.interval = 4
             /\ fsOut'.dueDate = fsNow + 4 * Day
        /\ (fsRating' = 3 /\ fsOut.state = "relearning") =>
             /\ fsOut'.state = "review"
             /\ fsOut'.stability # fsOut.stability
             /\ fsOut'.interval
                  = nextInterval(fsOut'.stability, DEFAULT_PARAMETERS.requestRetention)
             /\ fsOut'.dueDate = fsNow + fsOut'.interval * Day
    ]_vars

\* a card that graduated, lapsed and was rated Good in relearning
GraduationWitness ==
  /\ Len(fsTrail) = 3
  /\ fsTrail[1].rating \in {3, 4}
  /\ fsTrail[2].rating = 1
  /\ fsTrail[3].rating = 3
  /\ fsCard.state = "relearning"
  /\ fsOut.state = "review"
  /\ fsOut.interval >= 1

\* C31: the stability of a card is 0 only while the card is new: a learning,
\* review or relearning card has a stability above 0
StabilityPositive ==
  /\ fsOut.state # "new" => fsOut.stability > 0
  /\ fsOut.stability >= 0

\* a card that lapsed twice and lost stability each time
StabilityPositiveWitness ==
  /\ Len(fsTrail) = 3
  /\ fsTrail[2].rating = 1
  /\ fsTrail[3].rating = 1
  /\ fsOut.state \in {"learning", "relearning"}
  /\ fsOut.stability < DEFAULT_PARAMETERS.w[1]

\* C32: the difficulty of a card lies in [0, 1] after any sequence of ratings
DifficultyClamped ==
  /\ 0 <= fsOut.difficulty
  /\ fsOut.difficulty <= Milli

\* a new card rated Again: w[1] + w[7] = 1.3 is clamped to 1
DifficultyClampedWitness ==
  /\ Len(fsTrail) = 1
  /\ fsTrail[1].rating = 1
  /\ fsCard.state = "new"
  /\ DEFAULT_PARAMETERS.w[2] + DEFAULT_PARAMETERS.w[8] > Milli
  /\ fsOut.difficulty = Milli

\* C33: the interval of a card is a whole number >= 0; it is >= 1 after Hard,
\* Good or Easy, and 0 only in a card never reviewed or just rated Again, which
\* is then learning or relearning
IntervalFloor ==
  /\ fsOut.interval \in Nat
  /\ (fsTrail # << >> /\ fsTrail[Len(fsTrail)].rating # 1) => fsOut.interval >= 1
  /\ fsOut.interval = 0 =>
       \/ fsTrail = << >>
       \/ /\ fsTrail[Len(fsTrail)].rating = 1
          /\ fsOut.state \in {"learning", "relearning"}

\* a review card rated Hard whose stability rounds to no day at all
IntervalFloorWitness ==
  /\ fsTrail # << >>
  /\ fsTrail[Len(fsTrail)].rating = 2
  /\ fsCard.state = "review"
  /\ 2 * fsOut.stability < Milli
  /\ fsOut.interval = 1

\* the history of record i has one entry more after the step
Appended(i) ==
  Len(ayah_progress'[i].history) = Len(ayah_progress[i].history) + 1

\* C34: a write of a rating appends one entry to the history of one record,
\* with the rating, the interval before and the interval after; the entries
\* there were keep their content and order, and no history gets shorter
HistoryAppendOnly ==
  [][ /\ Len(ayah_progress') = Len(ayah_progress)
      /\ \A i \in 1 .. Len(ayah_progress) :
           /\ IsPrefix(ayah_progress[i].history, ayah_progress'[i].history)
           /\ Len(ayah_progress'[i].history) <= Len(ayah_progress[i].history) + 1
           /\ Appended(i) =>
                LET entry == ayah_progress'[i].history[Len(ayah_progress'[i].history)]
                IN  /\ entry.rating \in Ratings
                    /\ entry.previousInterval = ayah_progress[i].interval
                    /\ entry.scheduledInterval = ayah_progress'[i].interval
      /\ evt'.written = evt.written + 1 =>
           Cardinality({ i \in 1 .. Len(ayah_progress) : Appended(i) }) = 1
    ]_vars

\* C35: the retention of a card with a stability <= 0 is 1 whatever time has
\* passed, and scheduleReview on such a card returns a stability and an
\* interval that are numbers
RetrievabilityGuard ==
  /\ fsCard.stability <= 0 =>
       memoryRetention(fsCard.stability, fsNow - fsCard.lastReview) = 0
  /\ (fsPc = "done" /\ fsCard.stability <= 0) =>
       /\ fsOut.stability # NaN
       /\ fsOut.interval # NaN
       /\ fsOut.dueDate # NaN

\* C36: at most one ticker is alive at any time, and none while the session
\* is idle, paused or complete
OneTickerWhileActive ==
  /\ Cardinality(intervals) <= 1
  /\ (~isActive \/ timer = Null) => intervals = {}

\* the history entries of the units from the i-th on, one member for each unit
RECURSIVE EntriesOfUnits(_, _)
EntriesOfUnits(units, i) ==
  IF i > Len(units) THEN 0
  ELSE Len((CHOOSE r \in Range(ayah_progress) : UnitKey(r) = units[i]).history)
         + EntriesOfUnits(units, i + 1)

\* C37: when the first session on new records has ended, the members of a
\* unit have as many history entries as ratings were counted for the unit: the
\* entries of the units add up to the persisted totalReviewed, also when a
\* grading button was pressed again while a rating was being written
TapsCountedAsScheduled ==
  (started = 1 /\ hist.how = "exhausted" /\ calls = << >>) =>
    /\ \A r, s \in Range(ayah_progress) :
         UnitKey(r) = UnitKey(s) => Len(r.history) = Len(s.history)
    /\ EntriesOfUnits(hist.units, 1)
         = RowOf(session_statistics, hist.statsId).totalReviewed

\* C38: createGroupsForSurah for ruku or page leaves the stored groups of the
\* other methods as they are, the fixed groups among them, and every group it
\* stores has the method it was called for as its groupType
StructuralFrame ==
  [][ structCall'.n = structCall.n + 1 =>
        /\ \A g \in Range(ayah_groups) :
             g.groupType # structCall'.method => g \in Range(ayah_groups')
        /\ \A g \in Range(ayah_groups') \ Range(ayah_groups) :
             g.groupType = structCall'.method
    ]_vars

\* the first half alone: the groups of the other methods stay
StructuralKeepsOthers ==
  [][ structCall'.n = structCall.n + 1 =>
        \A g \in Range(ayah_groups) :
          g.groupType # structCall'.method => g \in Range(ayah_groups')
    ]_vars

\* C39: the groupId of every item record is the id of a stored group
GroupIdsResolve ==
  \A r \in Range(ayah_progress) :
    \E g \in Range(ayah_groups) : g.id = r.groupId

\* WHERE nextReview IS NULL OR nextReview <= now, for the record of the card
Selected(card, now) == card.dueDate = Null \/ card.dueDate <= now

\* C40: isDue of the card built from a record is true exactly when the due
\* query selects the record, for every record a sequence of ratings leads to
\* and at every time
IsDueAgrees == isDue(fsOut, fsNow) <=> Selected(fsOut, fsNow)

\* the same for the cards that are not new or were never reviewed
IsDueAgreesOnceLearning ==
  (fsOut.state # "new" \/ fsTrail = << >>) =>
    (isDue(fsOut, fsNow) <=> Selected(fsOut, fsNow))

====
